---- MODULE Spec2Model ----
(***************************************************************************)
(* Verification model of the echokit_box voice session engine:             *)
(*   - the Playback Send-Buffer (src/src/audio.rs, SendBuffer),            *)
(*   - the real-time audio loop (src/src/audio.rs, audio_task_run),        *)
(*   - the session state machine (src/src/app.rs, App / main_work),        *)
(*   - the transport (src/src/ws.rs, Server and ws_manager).               *)
(***************************************************************************)
EXTENDS Integers, Sequences, FiniteSets, TLC

(***************************************************************************)
(* Bounds of the model (not program constants).                            *)
(***************************************************************************)
\* chunk size handed to SendBuffer::new (256 on the device, audio.rs:416)
ChunkSize == 2
\* longest slice given to one push_i16 / push_u8 call (in samples)
MaxLen == 3
\* total number of samples pushed in one behaviour
MaxPushed == 5
\* number of completion markers (Arc<Notify>) allocated in one behaviour
MaxNotify == 2
\* longest send-buffer queue explored
MaxCache == 3
\* longest byte slice given to one push_u8 call
MaxBytes == 4
\* room in the event channel to the orchestrator (64 on the device, main.rs:100)
EvtCap == 1

(***************************************************************************)
(* Program constants.                                                      *)
(***************************************************************************)
\* audio.rs:254 -- every level above 4 passes the sample through
VOL_PASS == 5
\* audio.rs:264 -- SendBuffer::new sets volume 3
VOL_NEW == 3
\* audio.rs:414 -- static VOL_NUM initial value
VOL_NUM_INIT == 5

\* app.rs:109 -- DownloadMetrics::new backdates start_time by 300 s
METRICS_INIT_AGE_SEC == 300
\* app.rs:111 -- DownloadMetrics::timeout_sec
METRICS_TIMEOUT_SEC == 15
\* app.rs:133 -- 32000 bytes of PCM per second, per millisecond
BYTES_PER_MS == 32
\* app.rs:137
SPEED_LIMIT == 1
\* app.rs:327 -- reconnect_with_retry(3)
RECONNECT_RETRIES == 3
\* app.rs:370 -- 16000 samples per second, per millisecond
SAMPLES_PER_MS == 16
\* app.rs:383 -- samples the pending buffer must hold before it is sent
SUBMIT_MIN_LEN == 8192
\* app.rs:384 -- 0.3 s, in samples at 16 kHz
SUBMIT_MIN_DUR == 4800
\* app.rs:393 -- 10.0 s, in samples at 16 kHz
ABORT_DUR == 160000
\* app.rs:405 -- 0.5 s, in samples at 16 kHz
INTERRUPT_DUR == 8000

\* 16-bit sample values used as inputs
Samples == {-20, 7}
\* byte values used as inputs of push_u8
Bytes == {1}
\* sample values used where only the place of a sample matters
BufSamples == {257}
\* greetings the server may set (SetHello), as bytes
HelloWavs == {<<1, 1, 1>>}
\* levels carried by VolSet events
VolInputs == {3}
\* the greeting built into the firmware (assets/hello_beep.wav), as bytes
WAKE_WAV == <<1, 1, 1, 1>>
Vowels == {0, 1}
VolLevels == 0..5

VARIABLES
    \* ---- SendBuffer (audio.rs:239-244)
    cache,          \* LinkedList<SendBufferItem>
    rest,           \* Vec<i16>: partial chunk carried over
    volume,         \* i16 volume level
    \* ---- completion markers (Arc<tokio::sync::Notify>)
    notified,       \* marker id -> number of notify_one calls received
    nextNotify,     \* next fresh marker id
    \* ---- call bookkeeping
    op,             \* name of the last SendBuffer operation / audio event handled
    ret,            \* value returned by the last operation, if a get_chunk call
    sig,            \* marker ids signalled by the last operation, in order
    cleared,        \* queue contents found by the last operation, if a clear()
    pushed,         \* all samples given to push_i16 so far, in order
    yielded,        \* Audio chunks returned by get_chunk so far, in order
    \* ---- real-time audio loop (audio.rs:419-570)
    hello_wav,      \* Vec<u8>: greeting played on Hello
    allow_speech,   \* bool
    speech,         \* bool, mirrored in the PLAYING atomic
    play_data,      \* chunk written to the codec by the last iteration
    evt_ch,         \* bounded channel audio loop -> orchestrator (main.rs:100)
    loop_pc,        \* "run", "exited" (I/O error or short read) or "panic"
    \* ---- session state machine (app.rs:183-200) and its transport
    app,            \* the App record, the connection and what the last handler sent
    \* ---- transport (ws.rs): the Server and the ws_manager of its connection
    ws,
    \* ---- AFE worker thread (audio.rs:153-188)
    afe,            \* segment flag, position, and what the last iteration did
    \* ---- pure functions (protocol.rs, activation.rs, report.rs)
    call            \* the last call of a pure function: its name, argument and result

\* no pure function called yet
NoCallYet == [f |-> "none", arg |-> <<>>, out |-> <<>>]

bufVars == <<cache, rest, volume, notified, nextNotify, op, ret, sig, cleared,
             pushed, yielded>>

loopVars == <<hello_wav, allow_speech, speech, play_data, evt_ch, loop_pc>>

vars == <<bufVars, loopVars, app, ws, afe, call>>

(***************************************************************************)
(* Helpers on sequences.                                                   *)
(***************************************************************************)
SeqsUpTo(S, n) == UNION {[1..k -> S] : k \in 0..n}

RECURSIVE Flatten(_)
Flatten(ss) == IF ss = <<>> THEN <<>> ELSE Head(ss) \o Flatten(Tail(ss))

Drop(s, n) == SubSeq(s, n + 1, Len(s))
Take(s, n) == SubSeq(s, 1, n)

\* Rust integer division truncates toward zero
TruncDiv(a, b) == IF a >= 0 THEN a \div b ELSE -((-a) \div b)

(***************************************************************************)
(* SendBufferItem (audio.rs:233-237)                                       *)
(***************************************************************************)
Audio(d) == [t |-> "Audio", d |-> d, v |-> 0]
Vowel(v) == [t |-> "Vowel", d |-> <<>>, v |-> v]
EndSpeechItem(id) == [t |-> "EndSpeech", d |-> <<>>, v |-> id]
None == [t |-> "None", d |-> <<>>, v |-> 0]
NoCall == [t |-> "NoCall", d |-> <<>>, v |-> 0]

(***************************************************************************)
(* get_volume (audio.rs:246-256)                                           *)
(***************************************************************************)
\* faulty variant: the divisors in the reverse order
get_volume_reversed(value, vol) ==
    CASE vol = 0 -> 0
      [] vol = 1 -> TruncDiv(value, 2)
      [] vol = 2 -> TruncDiv(value, 4)
      [] vol = 3 -> TruncDiv(value, 8)
      [] vol = 4 -> TruncDiv(value, 16)
      [] OTHER -> value

get_volume(value, vol) ==
    CASE vol = 0 -> 0
      [] vol = 1 -> TruncDiv(value, 16)
      [] vol = 2 -> TruncDiv(value, 8)
      [] vol = 3 -> TruncDiv(value, 4)
      [] vol = 4 -> TruncDiv(value, 2)
      [] OTHER -> value

Scale(v, vol) == [i \in 1..Len(v) |-> get_volume(v[i], vol)]

(***************************************************************************)
(* SendBuffer::push_i16 (audio.rs:312-342).  A buffer value is the record  *)
(* [cache, rest]; the volume and chunk size are passed along.              *)
(***************************************************************************)
\* the `for chunk in data.chunks(chunk_size)` loop, audio.rs:331-341
RECURSIVE push_chunks(_, _, _, _)
push_chunks(b, data, vol, cs) ==
    IF data = <<>> THEN b
    ELSE IF Len(data) < cs
         THEN [b EXCEPT !.rest = data]
         ELSE push_chunks([b EXCEPT !.cache = Append(@, Audio(Scale(Take(data, cs), vol)))],
                          Drop(data, cs), vol, cs)

RECURSIVE push_i16(_, _, _, _)
push_i16(b, data, vol, cs) ==
    IF Len(b.rest) > 0
    THEN LET needed == cs - Len(b.rest) IN
         IF Len(data) >= needed
         THEN LET v == Scale(b.rest \o Take(data, needed), vol)
                  b1 == [cache |-> Append(b.cache, Audio(v)), rest |-> <<>>]
              IN push_i16(b1, Drop(data, needed), vol, cs)
         ELSE [b EXCEPT !.rest = @ \o data]
    ELSE push_chunks(b, data, vol, cs)

(***************************************************************************)
(* SendBuffer::push_u8 (audio.rs:268-310).  data is a sequence of bytes.   *)
(***************************************************************************)
\* i16::from_le_bytes
from_le_bytes(lo, hi) ==
    LET u == lo + 256 * hi IN IF u >= 32768 THEN u - 65536 ELSE u

\* the first n/2 samples decoded from the byte slice (audio.rs:272-275, 286-289, 296-300)
Decode(data, n) == [i \in 1..(n \div 2) |-> from_le_bytes(data[2 * i - 1], data[2 * i])]

\* faulty variant: what is left of the slice is queued whatever its length
push_u8_chunks_queues_short(b, data, vol, cs) ==
    IF data = <<>> THEN b
    ELSE [b EXCEPT !.cache = Append(@, Audio(Scale(Decode(data, Len(data)), vol)))]

\* the `for chunk in data.chunks(chunk_size * 2)` loop, audio.rs:295-309
RECURSIVE push_u8_chunks(_, _, _, _)
push_u8_chunks(b, data, vol, cs) ==
    IF data = <<>> THEN b
    ELSE LET n == IF Len(data) < 2 * cs THEN Len(data) ELSE 2 * cs
             v == Decode(Take(data, n), n)
             b1 == IF Len(v) < cs
                   THEN [b EXCEPT !.rest = v]
                   ELSE [b EXCEPT !.cache = Append(@, Audio(Scale(v, vol)))]
         IN push_u8_chunks(b1, Drop(data, n), vol, cs)

RECURSIVE push_u8(_, _, _, _)
push_u8(b, data, vol, cs) ==
    IF Len(b.rest) > 0
    THEN LET needed == cs * 2 - Len(b.rest) * 2 IN
         IF Len(data) >= needed
         THEN LET v == Scale(b.rest \o Decode(data, needed), vol)
                  b1 == [cache |-> Append(b.cache, Audio(v)), rest |-> <<>>]
              IN push_u8(b1, Drop(data, needed), vol, cs)
         ELSE [b EXCEPT !.rest = @ \o Decode(data, Len(data))]
    ELSE push_u8_chunks(b, data, vol, cs)

(***************************************************************************)
(* SendBuffer::get_chunk (audio.rs:352-364): the returned record holds the *)
(* item returned, the queue left and the marker ids signalled on the way.  *)
(***************************************************************************)
RECURSIVE get_chunk_from(_, _)
get_chunk_from(c, sg) ==
    IF c = <<>> THEN [item |-> None, cache |-> c, sig |-> sg]
    ELSE IF Head(c).t = "EndSpeech"
         THEN get_chunk_from(Tail(c), Append(sg, Head(c).v))
         ELSE [item |-> Head(c), cache |-> Tail(c), sig |-> sg]

\* faulty variant: the marker is handed to the caller instead of being skipped
get_chunk_returns_marker(c) ==
    IF c = <<>> THEN [item |-> None, cache |-> c, sig |-> <<>>]
    ELSE [item |-> Head(c), cache |-> Tail(c),
          sig |-> IF Head(c).t = "EndSpeech" THEN <<Head(c).v>> ELSE <<>>]

get_chunk(c) == get_chunk_from(c, <<>>)

(***************************************************************************)
(* SendBuffer::clear (audio.rs:366-378): the marker ids signalled while    *)
(* the queue is drained; the queue is left empty.                          *)
(***************************************************************************)
RECURSIVE clear_from(_, _)
clear_from(c, sg) ==
    IF c = <<>> THEN [cache |-> c, sig |-> sg]
    ELSE IF Head(c).t = "EndSpeech"
         THEN clear_from(Tail(c), Append(sg, Head(c).v))
         ELSE clear_from(Tail(c), sg)

\* faulty variant: the queue is dropped wholesale, markers included
clear_drops_markers(c) == [cache |-> <<>>, sig |-> <<>>]

clear(c) == clear_from(c, <<>>)

\* notify_one on each marker of sg
Signal(n, sg) ==
    [id \in DOMAIN n |-> n[id] + Cardinality({i \in 1..Len(sg) : sg[i] = id})]

(***************************************************************************)
(* AudioEvent (audio.rs:221-231)                                           *)
(***************************************************************************)
EvHello(id) == [t |-> "Hello", d |-> <<>>, v |-> id]
EvSetHello(h) == [t |-> "SetHello", d |-> h, v |-> 0]
EvStopSpeech == [t |-> "StopSpeech", d |-> <<>>, v |-> 0]
EvStartSpeech == [t |-> "StartSpeech", d |-> <<>>, v |-> 0]
EvClearSpeech == [t |-> "ClearSpeech", d |-> <<>>, v |-> 0]
EvSpeechChunki16(d) == [t |-> "SpeechChunki16", d |-> d, v |-> 0]
EvSpeechChunki16WithVowel(d, v) == [t |-> "SpeechChunki16WithVowel", d |-> d, v |-> v]
EvEndSpeech(id) == [t |-> "EndSpeech", d |-> <<>>, v |-> id]
EvVolSet(v) == [t |-> "VolSet", d |-> <<>>, v |-> v]
\* rx.try_recv() found the channel empty
NoEvent == [t |-> "NoEvent", d |-> <<>>, v |-> 0]

(***************************************************************************)
(* Session state machine.  `app` holds the fields of App (app.rs:183-200), *)
(* with SubmitState (app.rs:140-145) and DownloadMetrics (app.rs:100-104)  *)
(* flattened into it, the state of the connection, a description of the    *)
(* step taken last, and the observer's view of the response in progress.   *)
(* Durations are kept exact: submit_audio counts samples (the f32 seconds  *)
(* of the code times 16000), elapsed counts milliseconds.                  *)
(*   state, block_server, index     State (app.rs:157-164)                 *)
(*   submit_audio, start_submit, audio_buffer, got_asr_result              *)
(*                                  audio_buffer is the length of the Vec  *)
(*   recv_audio_buffer              queue of (data, vowel), data by length *)
(*   elapsed, data_size             metrics.start_time.elapsed() and       *)
(*                                  metrics.data_size                      *)
(*   need_compute, start_audio, speed, allow_interrupt                     *)
(*   vol                            App::vol                               *)
(*   content, items                 the main area of the gui: "text", or   *)
(*                                  "choices" with that many items         *)
(*   gui_out                        label the last step gave to            *)
(*                                  gui.set_state, "" if it gave none      *)
(*   voice_interrupt                the build has feature voice_interrupt  *)
(*   ws_alive                       the ws_manager of the current          *)
(*                                  connection is running                  *)
(*   pc                             "run", "error" once main_work has      *)
(*                                  returned Err, "panic" once it panicked *)
(*   opn, arg, prev                 the step taken last, the length of its *)
(*                                  input and the State it started from    *)
(*   conn, attempts                 outcome of reconnect_with_retry in the *)
(*                                  last step and the attempts it made     *)
(*   ws_out, player_out             what the last step sent to the         *)
(*                                  transport / to the audio loop          *)
(*   resp_elapsed, resp_samples     wall time since the last StartAudio    *)
(*                                  was handled and samples received since *)
(***************************************************************************)
RECURSIVE GCD(_, _)
GCD(a, b) == IF b = 0 THEN a ELSE GCD(b, a % b)

\* a speed value n/d in lowest terms; d = 0 stands for the infinite (or NaN)
\* result of dividing by a zero byte count
Ratio(n, d) ==
    IF d = 0 THEN [n |-> 1, d |-> 0]
    ELSE LET g == GCD(n, d) IN [n |-> n \div g, d |-> d \div g]

\* DownloadMetrics::speed (app.rs:132-134), elapsed in milliseconds
metrics_speed(elapsed, data_size) == Ratio(elapsed * BYTES_PER_MS, data_size)

(***************************************************************************)
(* DownloadMetrics::speed as the f64 arithmetic evaluates it.  The session *)
(* model above keeps the exact quotient, which is enough to compare a      *)
(* speed with SPEED_LIMIT; where two computed values are compared with     *)
(* each other the rounding of every operation counts.  A float is the      *)
(* record [m, e] standing for m * 2^e with m = 0 or a significand of       *)
(* F64_MANT bits; every operation rounds its exact result to the nearest   *)
(* such value, ties to even, as IEEE 754 does.  Integers up to 2^F64_MANT  *)
(* convert exactly, as usize and u64 values below 2^53 do in f64.          *)
(***************************************************************************)
F64_MANT == 11
MILLIS_PER_SEC == 1000
BYTES_PER_SEC == 32000

\* num / den for num >= 0 and den > 0, scaled by 2^e, rounded
RECURSIVE f64_round(_, _, _)
f64_round(num, den, e) ==
    IF num = 0 THEN [m |-> 0, e |-> 0]
    ELSE IF num >= den * 2^F64_MANT THEN f64_round(num, den * 2, e + 1)
    ELSE IF num < den * 2^(F64_MANT - 1) THEN f64_round(num * 2, den, e - 1)
    ELSE LET q == num \div den
             r == num % den
             up == 2 * r > den \/ (2 * r = den /\ q % 2 = 1)
             m == IF up THEN q + 1 ELSE q
         IN IF m = 2^F64_MANT THEN [m |-> 2^(F64_MANT - 1), e |-> e + 1]
            ELSE [m |-> m, e |-> e]

\* `n as f64`
f64_from(n) == f64_round(n, 1, 0)

\* x + y
f64_add(x, y) ==
    IF x.m = 0 THEN y
    ELSE IF y.m = 0 THEN x
    ELSE LET e0 == IF x.e < y.e THEN x.e ELSE y.e IN
         f64_round(x.m * 2^(x.e - e0) + y.m * 2^(y.e - e0), 1, e0)

\* x / y for y > 0
f64_div(x, y) == f64_round(x.m, y.m, x.e - y.e)

\* Duration::as_secs_f64 of a whole number of milliseconds: the seconds plus
\* the sub-second part over the number of sub-second units in a second
as_secs_f64(ms) ==
    f64_add(f64_from(ms \div MILLIS_PER_SEC),
            f64_div(f64_from(ms % MILLIS_PER_SEC), f64_from(MILLIS_PER_SEC)))

\* faulty variant: the clock is read one millisecond late
speed_f64_late_clock(ms, data_size) ==
    f64_div(as_secs_f64(ms + 1), f64_div(f64_from(data_size), f64_from(BYTES_PER_SEC)))

\* DownloadMetrics::speed (app.rs:132-134)
speed_f64(ms, data_size) ==
    f64_div(as_secs_f64(ms), f64_div(f64_from(data_size), f64_from(BYTES_PER_SEC)))

\* DownloadMetrics::is_timeout (app.rs:115-117)
is_timeout(elapsed) == elapsed \div 1000 > METRICS_TIMEOUT_SEC

\* `self.speed < SPEED_LIMIT` (app.rs:513)
below_limit(sp) == sp.d > 0 /\ sp.n < SPEED_LIMIT * sp.d

\* `vol: 3u8` (app.rs:651), the highest and the lowest volume the keys set
\* (app.rs:269, 295)
VOL_INIT == 3
VOL_MAX == 5
VOL_MIN == 1
\* stands for usize::MAX: the target's 2^32 - 1 is more than TLC's integers
\* hold, and only its being the largest value and the wrap at it matter
USIZE_MAX == 2147483647

\* main_work's App { ... } followed by goto_idle (app.rs:640-663); content
\* and items are the gui's main area (ChatUI::content, atom_box.rs:447-466):
\* a text, or a list of `items` choices
AppNew ==
    [state |-> "Idle", block_server |-> FALSE, index |-> 0,
     submit_audio |-> 0, start_submit |-> FALSE, audio_buffer |-> 0,
     got_asr_result |-> FALSE,
     recv_audio_buffer |-> <<>>,
     elapsed |-> METRICS_INIT_AGE_SEC * 1000, data_size |-> 0,
     need_compute |-> TRUE, start_audio |-> FALSE, speed |-> Ratio(1, 2),
     allow_interrupt |-> FALSE,
     vol |-> VOL_INIT, content |-> "text", items |-> 0,
     gui_out |-> "Idle",
     voice_interrupt |-> FALSE,
     ws_alive |-> TRUE, pc |-> "run",
     opn |-> "start", arg |-> 0, prev |-> "Idle",
     conn |-> "none", attempts |-> 0,
     ws_out |-> <<>>, player_out |-> <<>>,
     resp_elapsed |-> 0, resp_samples |-> 0, stale_at_vad |-> "off",
     hello_wav |-> <<>>, set_hello |-> FALSE,
     hello_since_start |-> <<>>, hello_since_mark |-> <<>>,
     chunks_handled |-> -1, chunks_sent |-> <<>>, chunks_cut |-> -1,
     player_ch |-> <<>>]

\* ClientCommand / SubmitItem handed to Server::send (ws.rs:12-16)
CmdStartChat == [t |-> "StartChat", n |-> 0]
\* faulty variant: the first choice is selected whatever the index
CmdSelect_first(i) == [t |-> "Select", n |-> 0]
CmdSelect(i) == [t |-> "Select", n |-> i]
AudioFrame(n) == [t |-> "AudioChunk", n |-> n]

\* the record a step starts from: nothing sent yet
Begin(a, name, n) ==
    [a EXCEPT !.opn = name, !.arg = n, !.prev = a.state,
              !.conn = "none", !.attempts = 0, !.gui_out = "",
              !.ws_out = <<>>, !.player_out = <<>>]

\* SubmitState::clear (app.rs:148-153)
submit_clear(a) ==
    [a EXCEPT !.submit_audio = 0, !.start_submit = FALSE, !.audio_buffer = 0,
              !.got_asr_result = FALSE]

\* goto_idle (app.rs:203-208)
goto_idle(a) == [a EXCEPT !.state = "Idle", !.block_server = FALSE, !.index = 0,
                          !.gui_out = "Idle", !.content = "text", !.items = 0]

\* goto_submitting (app.rs:210-215)
goto_submitting(a) ==
    [a EXCEPT !.state = "Submitting", !.block_server = FALSE, !.index = 0,
              !.gui_out = "Listening...", !.content = "text", !.items = 0]

\* faulty variant: the held chunks are kept
goto_listening_keeps_held(a) ==
    [a EXCEPT !.state = "Listening", !.block_server = FALSE, !.index = 0, !.gui_out = "Ready"]

\* goto_listening (app.rs:217-224)
goto_listening(a) ==
    [a EXCEPT !.recv_audio_buffer = <<>>, !.state = "Listening",
              !.block_server = FALSE, !.index = 0, !.gui_out = "Ready"]

\* goto_waiting (app.rs:232-237)
goto_waiting(a) == [a EXCEPT !.state = "Waiting", !.block_server = FALSE, !.index = 0,
                             !.gui_out = "Waiting...", !.content = "text",
                             !.items = 0]

\* goto_speaking (app.rs:239-246)
goto_speaking(a) == [a EXCEPT !.state = "Speaking", !.block_server = FALSE, !.index = 0,
                              !.gui_out = "Speaking...", !.content = "text",
                              !.items = 0]

\* trigger_interrupt (app.rs:248-252)
trigger_interrupt(a) == [a EXCEPT !.allow_interrupt = ~@]

\* Server::send (ws.rs:279-285): the item reaches the channel of a running
\* ws_manager, or the send fails and the `?` of the handler ends main_work
send_ok(a) == a.ws_alive
sent(a, item) == [a EXCEPT !.ws_out = Append(@, item)]
failed(a) == [a EXCEPT !.pc = "error"]

\* player_tx.send (app.rs:272, 348, 420, 498, 515, 555, 563); the payload of
\* a speech chunk is kept by its length
play(a, e) == [a EXCEPT !.player_out = Append(@, e)]

(***************************************************************************)
(* Server::reconnect_with_retry (ws.rs:256-272).  outcomes[i] tells        *)
(* whether the i-th call of reconnect() would connect.  The result gives   *)
(* the number of attempts made and whether one succeeded.                  *)
(***************************************************************************)
RECURSIVE retry_from(_, _, _)
retry_from(outcomes, attempt, retries) ==
    IF attempt >= retries THEN [ok |-> FALSE, attempts |-> attempt]
    ELSE IF outcomes[attempt + 1] THEN [ok |-> TRUE, attempts |-> attempt + 1]
         ELSE retry_from(outcomes, attempt + 1, retries)

reconnect_with_retry(outcomes, retries) == retry_from(outcomes, 0, retries)

\* the Server after reconnect_with_retry: new channels and a new ws_manager
\* on success (ws.rs:250-252), the old ones kept on failure
reconnected(a, r) ==
    [a EXCEPT !.attempts = r.attempts,
              !.conn = IF r.ok THEN "ok" ELSE "failed",
              !.ws_alive = IF r.ok THEN TRUE ELSE @]

(***************************************************************************)
(* App::handle_key0 (app.rs:310-360)                                       *)
(***************************************************************************)
\* faulty variant: a failed reconnect does not end the Idle arm
handle_key0_ignores_failure(a0, outcomes) ==
    LET a == Begin(a0, "k0", 0) IN
    IF a.state = "Idle"
    THEN LET r == reconnect_with_retry(outcomes, RECONNECT_RETRIES) IN
         goto_listening(submit_clear(reconnected(a, r)))
    ELSE goto_idle(a)

handle_key0(a0, outcomes) ==
    LET a == Begin(a0, "k0", 0) IN
    CASE a.state \in {"Listening", "Waiting", "Submitting"} -> goto_idle(a)
      [] a.state = "Choices" ->
            IF send_ok(a) THEN goto_waiting(sent(a, CmdSelect(a.index)))
            ELSE failed(a)
      [] a.state = "Idle" ->
            LET c == [a EXCEPT !.gui_out = "Connecting...", !.content = "text",
                               !.items = 0]
                r == reconnect_with_retry(outcomes, RECONNECT_RETRIES)
                s == reconnected(c, r)
            IN IF ~r.ok THEN [s EXCEPT !.gui_out = "Connect Server Failed"]
               ELSE goto_listening(submit_clear(s))
      [] a.state = "Speaking" ->
            LET r == reconnect_with_retry(outcomes, RECONNECT_RETRIES)
                s == reconnected(a, r)
            IN IF ~r.ok THEN [s EXCEPT !.gui_out = "Reconnect Server Failed"]
               ELSE goto_listening(play([s EXCEPT !.got_asr_result = FALSE],
                                        EvClearSpeech))

(***************************************************************************)
(* usize arithmetic: a result out of range panics in a build that checks   *)
(* overflow and wraps in one that does not; `wraps` tells which.           *)
(***************************************************************************)
usize_add(x, y, wraps) ==
    IF x <= USIZE_MAX - y THEN [ok |-> TRUE, v |-> x + y]
    ELSE IF wraps THEN [ok |-> TRUE, v |-> (x - USIZE_MAX) + (y - 1)]
    ELSE [ok |-> FALSE, v |-> 0]

usize_sub(x, y, wraps) ==
    IF x >= y THEN [ok |-> TRUE, v |-> x - y]
    ELSE IF wraps THEN [ok |-> TRUE, v |-> USIZE_MAX - (y - x - 1)]
    ELSE [ok |-> FALSE, v |-> 0]

\* a panic of the main_work task
panicked(a) == [a EXCEPT !.pc = "panic"]

\* ChatUI::update_choice_index (atom_box.rs:468-490)
update_choice_index(a, index, wraps) ==
    IF a.content = "choices"
    THEN IF index >= a.items THEN usize_sub(a.items, 1, wraps)
         ELSE [ok |-> TRUE, v |-> index]
    ELSE [ok |-> TRUE, v |-> 0]

\* App::handle_key_up (app.rs:260-283)
handle_key_up(a0, wraps) ==
    LET a == Begin(a0, "vol_up", 0) IN
    CASE a.state = "Choices" ->
            LET i == usize_add(a.index, 1, wraps) IN
            IF ~i.ok THEN panicked(a)
            ELSE LET r == update_choice_index(a, i.v, wraps) IN
                 IF ~r.ok THEN panicked(a) ELSE [a EXCEPT !.index = r.v]
      [] a.state \in {"Listening", "Speaking"} ->
            LET v == IF a.vol + 1 > VOL_MAX THEN VOL_MAX ELSE a.vol + 1 IN
            play([a EXCEPT !.vol = v], EvVolSet(v))
      [] OTHER -> a

\* App::handle_key_down (app.rs:285-308)
handle_key_down(a0, wraps) ==
    LET a == Begin(a0, "vol_down", 0) IN
    CASE a.state = "Choices" ->
            IF a.index > 0
            THEN LET r == update_choice_index(a, a.index - 1, wraps) IN
                 IF ~r.ok THEN panicked(a) ELSE [a EXCEPT !.index = r.v]
            ELSE a
      [] a.state \in {"Listening", "Speaking"} ->
            LET v == IF a.vol > VOL_MIN THEN a.vol - 1 ELSE a.vol IN
            play([a EXCEPT !.vol = v], EvVolSet(v))
      [] OTHER -> a

(***************************************************************************)
(* App::handle_mic_audio (app.rs:362-434); n is data.len()                 *)
(***************************************************************************)
\* faulty variant: the pending buffer is sent whatever its length
mic_flush_any_length(a) ==
    IF a.submit_audio > SUBMIT_MIN_DUR
    THEN LET b == [a EXCEPT !.audio_buffer = 0] IN
         IF ~send_ok(b) THEN failed(b)
         ELSE sent(b, AudioFrame(a.audio_buffer))
    ELSE a

\* the flush of the pending buffer (app.rs:383-399)
mic_flush(a) ==
    IF a.audio_buffer >= SUBMIT_MIN_LEN /\ a.submit_audio > SUBMIT_MIN_DUR
    THEN LET b == [a EXCEPT !.audio_buffer = 0] IN
         IF ~send_ok(b) THEN failed(b)
         ELSE LET c == sent(b, AudioFrame(a.audio_buffer)) IN
              IF c.submit_audio > ABORT_DUR /\ ~c.got_asr_result
              THEN submit_clear(c)
              ELSE c
    ELSE a

\* faulty variant: the barge-in starts whatever the accumulated duration
mic_barge_in_any_duration(a, outcomes, n) ==
    LET b == [a EXCEPT !.submit_audio = @ + n, !.audio_buffer = @ + n]
        r == reconnect_with_retry(outcomes, RECONNECT_RETRIES)
        s == reconnected(b, r)
    IN IF ~r.ok THEN [s EXCEPT !.gui_out = "Reconnect Server Failed"]
       ELSE goto_submitting(play(sent([s EXCEPT !.got_asr_result = FALSE],
                                      CmdStartChat), EvClearSpeech))

\* faulty variant: the barge-in leaves the playback queue alone
mic_barge_in_keeps_playback(a, outcomes, n) ==
    LET b == [a EXCEPT !.submit_audio = @ + n, !.audio_buffer = @ + n] IN
    IF b.submit_audio > INTERRUPT_DUR
    THEN LET r == reconnect_with_retry(outcomes, RECONNECT_RETRIES)
             s == reconnected(b, r)
         IN IF ~r.ok THEN [s EXCEPT !.gui_out = "Reconnect Server Failed"]
            ELSE goto_submitting(sent([s EXCEPT !.got_asr_result = FALSE],
                                      CmdStartChat))
    ELSE b

\* faulty variant: the barge-in opens no new chat on the new connection
mic_barge_in_without_start(a, outcomes, n) ==
    LET b == [a EXCEPT !.submit_audio = @ + n, !.audio_buffer = @ + n] IN
    IF b.submit_audio > INTERRUPT_DUR
    THEN LET r == reconnect_with_retry(outcomes, RECONNECT_RETRIES)
             s == reconnected(b, r)
         IN IF ~r.ok THEN [s EXCEPT !.gui_out = "Reconnect Server Failed"]
            ELSE goto_submitting(play([s EXCEPT !.got_asr_result = FALSE], EvClearSpeech))
    ELSE b

\* the arm for Speaking with allow_interrupt (app.rs:401-426)
mic_barge_in(a, outcomes, n) ==
    LET b == [a EXCEPT !.submit_audio = @ + n, !.audio_buffer = @ + n] IN
    IF b.submit_audio > INTERRUPT_DUR
    THEN LET r == reconnect_with_retry(outcomes, RECONNECT_RETRIES)
             s == reconnected(b, r)
         IN IF ~r.ok THEN [s EXCEPT !.gui_out = "Reconnect Server Failed"]
            ELSE LET c == [s EXCEPT !.got_asr_result = FALSE] IN
                 IF ~send_ok(c) THEN failed(c)
                 ELSE goto_submitting(play(sent(c, CmdStartChat), EvClearSpeech))
    ELSE b

handle_mic_audio(a0, outcomes, n) ==
    LET a == Begin(a0, "mic", n) IN
    CASE a.state \in {"Listening", "Submitting"} ->
            LET b == [a EXCEPT !.submit_audio = @ + n, !.audio_buffer = @ + n] IN
            IF b.state = "Listening"
            THEN IF ~send_ok(b) THEN failed(b)
                 ELSE mic_flush([goto_submitting(sent(b, CmdStartChat))
                                    EXCEPT !.got_asr_result = FALSE])
            ELSE mic_flush(b)
      [] a.state = "Speaking" /\ a.allow_interrupt -> mic_barge_in(a, outcomes, n)
      [] OTHER -> a

(***************************************************************************)
(* App::handle_playback_ended (app.rs:436-446)                             *)
(***************************************************************************)
handle_playback_ended(a0) ==
    LET a == Begin(a0, "PlaybackEnded", 0) IN
    IF a.state = "Speaking" THEN [a EXCEPT !.block_server = FALSE] ELSE a

(***************************************************************************)
(* App::handle_server_event (app.rs:448-623); evt is [t, n, v] with n the  *)
(* number of samples of an AudioChunki16 and v its vowel                   *)
(***************************************************************************)
\* faulty variant: the EndVad arm without its state check
on_end_vad_any_state(a) ==
    goto_waiting(submit_clear([a EXCEPT !.need_compute = is_timeout(a.elapsed)]))

\* the EndVad arm (app.rs:454-468)
on_end_vad(a) ==
    IF a.state # "Submitting" THEN a
    ELSE goto_waiting(submit_clear([a EXCEPT !.need_compute = is_timeout(a.elapsed)]))

\* the StartAudio arm (app.rs:490-501)
on_start_audio(a) ==
    IF a.state \notin {"Waiting", "Speaking"} THEN a
    ELSE play(goto_speaking([a EXCEPT !.start_audio = TRUE]), EvStartSpeech)

\* faulty variant: the chunk is queued whatever the speed estimate
on_audio_chunk_always_buffers(a, n, v) ==
    IF a.state = "Speaking"
    THEN [a EXCEPT !.recv_audio_buffer = Append(@, [n |-> n, v |-> v])]
    ELSE a

\* the AudioChunki16 arm (app.rs:502-527)
on_audio_chunk(a, n, v) ==
    IF a.state = "Speaking"
    THEN LET m == IF a.need_compute
                  THEN LET r == IF a.start_audio
                                THEN [a EXCEPT !.elapsed = 0, !.data_size = 0,
                                               !.start_audio = FALSE]
                                ELSE a
                       IN [r EXCEPT !.data_size = @ + n * 2]
                  ELSE a
         IN IF below_limit(m.speed)
            THEN play(m, EvSpeechChunki16WithVowel(n, v))
            ELSE [m EXCEPT !.recv_audio_buffer = Append(@, [n |-> n, v |-> v])]
    ELSE a

\* the EndResponse arm (app.rs:540-545)
on_end_response(a) == IF a.state # "Idle" THEN goto_listening(a) ELSE a

\* faulty variant: the queue is emptied from its back
RECURSIVE flush_recv_newest_first(_)
flush_recv_newest_first(a) ==
    IF a.recv_audio_buffer = <<>> THEN a
    ELSE LET k == Len(a.recv_audio_buffer)
             h == a.recv_audio_buffer[k]
         IN flush_recv_newest_first(
                play([a EXCEPT !.recv_audio_buffer = SubSeq(@, 1, k - 1)],
                     EvSpeechChunki16WithVowel(h.n, h.v)))

\* the flush loop of the EndAudio arm (app.rs:553-561)
RECURSIVE flush_recv(_)
flush_recv(a) ==
    IF a.recv_audio_buffer = <<>> THEN a
    ELSE LET h == Head(a.recv_audio_buffer) IN
         flush_recv(play([a EXCEPT !.recv_audio_buffer = Tail(@)],
                         EvSpeechChunki16WithVowel(h.n, h.v)))

\* faulty variant: the speed is computed at every EndAudio
on_end_audio_always_computes(a) ==
    IF a.state = "Speaking"
    THEN LET f == flush_recv([a EXCEPT !.start_audio = FALSE])
             e == [play(f, EvEndSpeech(0)) EXCEPT !.block_server = TRUE]
         IN [e EXCEPT !.speed = metrics_speed(e.elapsed, e.data_size),
                      !.need_compute = FALSE]
    ELSE a

\* the EndAudio arm (app.rs:547-582)
on_end_audio(a) ==
    IF a.state = "Speaking"
    THEN LET f == flush_recv([a EXCEPT !.start_audio = FALSE])
             e == [play(f, EvEndSpeech(0)) EXCEPT !.block_server = TRUE]
         IN IF e.need_compute
            THEN [e EXCEPT !.speed = metrics_speed(e.elapsed, e.data_size),
                           !.need_compute = FALSE]
            ELSE e
    ELSE a

\* faulty variant: HelloStart keeps what was accumulated
on_hello_start_keeps(a) == a

\* the HelloStart arm (app.rs:583-590)
on_hello_start(a) ==
    IF a.set_hello THEN a ELSE [a EXCEPT !.hello_wav = <<>>]

\* the HelloChunk arm (app.rs:591-597)
on_hello_chunk(a, data) ==
    IF a.set_hello THEN a ELSE [a EXCEPT !.hello_wav = @ \o data]

\* the HelloEnd arm (app.rs:598-610)
on_hello_end(a) ==
    IF a.set_hello THEN a
    ELSE play([a EXCEPT !.hello_wav = <<>>], EvSetHello(a.hello_wav))

handle_server_event(a0, evt) ==
    LET a == Begin(a0, evt.t, evt.n) IN
    CASE evt.t = "EndVad" -> on_end_vad(a)
      [] evt.t = "HelloStart" -> on_hello_start(a)
      [] evt.t = "HelloChunk" -> on_hello_chunk(a, evt.d)
      [] evt.t = "HelloEnd" -> on_hello_end(a)
      [] evt.t = "ASR" -> [a EXCEPT !.got_asr_result = TRUE, !.gui_out = "ASR"]
      [] evt.t = "Action" -> [a EXCEPT !.gui_out = "Action"]
      [] evt.t = "Choices" ->
            [a EXCEPT !.state = "Choices", !.index = 0, !.block_server = FALSE,
                      !.content = "choices", !.items = evt.n]
      [] evt.t = "DisplayText" -> [a EXCEPT !.content = "text", !.items = 0]
      [] evt.t = "StartAudio" -> on_start_audio(a)
      [] evt.t = "AudioChunki16" -> on_audio_chunk(a, evt.n, evt.v)
      [] evt.t = "EndResponse" -> on_end_response(a)
      [] evt.t = "EndAudio" -> on_end_audio(a)
      [] evt.t = "HasNotification" ->
            IF a.state = "Idle" THEN [a EXCEPT !.gui_out = "Notification"] ELSE a
      [] OTHER -> a

\* App::is_block_server (app.rs:625-630)
is_block_server(a) == a.state = "Speaking" /\ a.block_server

(***************************************************************************)
(* The transport (ws.rs).  ws holds                                        *)
(*   tx, conns      the connection whose channels the Server holds         *)
(*                  (Server::tx and Server::rx are replaced together) and  *)
(*                  the number of connections made so far                  *)
(*   mgr            the ws_manager task of that connection: "run", or "ok" *)
(*                  / "err" once it has returned                           *)
(*   inq            the channel ws_manager -> Server::rx (ws.rs:174)       *)
(*   outq, wire     the channel Server::tx -> ws_manager (ws.rs:173) and   *)
(*                  the messages written to the socket                     *)
(*   frames, got    every message the ws_manager has read from the socket  *)
(*                  and every event Server::recv has returned              *)
(*   opn, res       the last operation and the value it returned           *)
(*   retries, outcomes, attempts, errs, before                             *)
(*                  of the last reconnect_with_retry: its bound, what each *)
(*                  connect() called did, the attempts made, the errors of *)
(*                  the failed ones and the channels held before it        *)
(*   old            the ws_manager tasks of the connections the Server has *)
(*                  given up, where they are followed: each with its       *)
(*                  connection, its state and what is left in its channel  *)
(*   hold, wait     where the capacity of the channels is followed: the    *)
(*                  event the ws_manager waits to put into the full inq,   *)
(*                  and the handler that waits in Server::send for space   *)
(*                  in the full outq, with the items it has sent so far    *)
(***************************************************************************)
\* a ServerEvent (protocol.rs:6-27) by its variant, the length of its audio
\* or the number of its items, and its vowel
SrvEvt(t, n, v) == [t |-> t, n |-> n, v |-> v]

\* the channels and the task a connect_handler call makes (ws.rs:168-184)
Channels(w) == [tx |-> w.tx, mgr |-> w.mgr, inq |-> w.inq, outq |-> w.outq,
                wire |-> w.wire, frames |-> w.frames, got |-> w.got]
NoChannels == [tx |-> 0, mgr |-> "", inq |-> <<>>, outq |-> <<>>,
               wire |-> <<>>, frames |-> <<>>, got |-> <<>>]

\* the record an operation starts from
WsBegin(w, name) ==
    [w EXCEPT !.opn = name, !.retries = 0, !.outcomes = <<>>, !.attempts = 0,
              !.errs = <<>>, !.before = NoChannels, !.res = [ok |-> TRUE, err |-> <<>>]]

\* Server::new (ws.rs:195-220), connected
WsNew ==
    [tx |-> 1, conns |-> 1, mgr |-> "run", inq |-> <<>>, outq |-> <<>>,
     wire |-> <<>>, frames |-> <<>>, got |-> <<>>,
     opn |-> "new", retries |-> 0, outcomes |-> <<>>, attempts |-> 0,
     errs |-> <<>>, res |-> [ok |-> TRUE, err |-> <<>>],
     before |-> NoChannels, old |-> <<>>, hold |-> <<>>, wait |-> <<>>]

\* anyhow::Result<()>: Ok(()) or an error, kept by its message
ResOk == [ok |-> TRUE, err |-> <<>>]
ResErr(e) == [ok |-> FALSE, err |-> e]
\* the error of one connect() call as reconnect() returns it (ws.rs:247)
ReconnectError(e) == ResErr(<<"Failed to reconnect", e>>)
\* the error reconnect_with_retry returns (ws.rs:271)
ALL_FAILED == ResErr(<<"All reconnect attempts failed">>)

\* faulty variant: the channels held are given up before connecting
reconnect_closes_first(w, outcome) ==
    IF outcome = "ok"
    THEN [w EXCEPT !.tx = w.conns + 1, !.conns = @ + 1, !.mgr = "run",
                   !.inq = <<>>, !.outq = <<>>, !.wire = <<>>, !.frames = <<>>,
                   !.got = <<>>, !.res = ResOk]
    ELSE [w EXCEPT !.mgr = "ok", !.inq = <<>>, !.outq = <<>>,
                   !.res = ReconnectError(outcome)]

\* faulty variant: the events queued on the connection given up are kept
reconnect_keeps_queue(w, outcome) ==
    IF outcome = "ok"
    THEN [w EXCEPT !.tx = w.conns + 1, !.conns = @ + 1, !.mgr = "run",
                   !.outq = <<>>, !.wire = <<>>, !.frames = <<>>,
                   !.got = <<>>, !.res = ResOk]
    ELSE [w EXCEPT !.res = ReconnectError(outcome)]

\* Server::reconnect (ws.rs:227-254); outcome is "ok" or the error of
\* connect(); connect_handler makes the new channels and spawns ws_manager
reconnect(w, outcome) ==
    IF outcome = "ok"
    THEN [w EXCEPT !.tx = w.conns + 1, !.conns = @ + 1, !.mgr = "run",
                   !.inq = <<>>, !.outq = <<>>, !.wire = <<>>, !.frames = <<>>,
                   !.got = <<>>, !.res = ResOk]
    ELSE [w EXCEPT !.res = ReconnectError(outcome)]

\* the for loop of Server::reconnect_with_retry (ws.rs:257-270) from
\* iteration `attempt` on, and the Err after it (ws.rs:271)
RECURSIVE retry_loop(_, _, _, _)
retry_loop(w, outcomes, attempt, retries) ==
    IF attempt >= retries THEN [w EXCEPT !.res = ALL_FAILED]
    ELSE LET r == reconnect(w, outcomes[attempt + 1])
             c == [r EXCEPT !.attempts = attempt + 1,
                            !.outcomes = Append(@, outcomes[attempt + 1])] IN
         IF r.res.ok THEN c
         ELSE retry_loop([c EXCEPT !.errs = Append(@, r.res)],
                         outcomes, attempt + 1, retries)

\* Server::reconnect_with_retry (ws.rs:256-272) on the Server itself;
\* reconnect_with_retry above is what the session makes of its result
Server_reconnect_with_retry(w, outcomes, retries) ==
    retry_loop([WsBegin(w, "reconnect_with_retry")
                   EXCEPT !.retries = retries, !.before = Channels(w)],
               outcomes, 0, retries)

(***************************************************************************)
(* ws_manager (ws.rs:17-165).  A message read from the socket is           *)
(* [binary, tag, opus, n, v]: whether it is a binary frame, the tag of its *)
(* MessagePack record, whether its audio payload is a valid Opus packet,   *)
(* the number of samples that packet decodes to, and its vowel.            *)
(***************************************************************************)
\* the variants of ServerEvent (protocol.rs:6-27)
ServerEventTags ==
    {"HelloStart", "HelloChunk", "HelloEnd", "ASR", "Action", "Choices",
     "StartAudio", "AudioChunk", "AudioChunkWithVowel", "AudioChunki16",
     "DisplayText", "StartVideo", "EndVideo", "EndAudio", "EndResponse",
     "EndVad", "HasNotification"}

\* rmp_serde::from_slice::<ServerEvent> (ws.rs:50-51)
from_slice(f) ==
    IF f.tag \in ServerEventTags
    THEN [ok |-> TRUE, evt |-> [t |-> f.tag, n |-> f.n, v |-> f.v]]
    ELSE [ok |-> FALSE, evt |-> [t |-> "", n |-> 0, v |-> 0]]

\* opus_decoder.decode (ws.rs:58, 78): the number of samples, or an error
opus_decode(f) == IF f.opus THEN [ok |-> TRUE, n |-> f.n] ELSE [ok |-> FALSE, n |-> 0]

\* tx.send(evt).await (ws.rs:66, 86, 103, 113) with the receiver alive
deliver(w, evt) == [w EXCEPT !.inq = Append(@, evt)]

\* faulty variant: a packet that does not decode ends the task
on_opus_chunk_fails_hard(w, f, vowel) ==
    LET d == opus_decode(f) IN
    IF d.ok THEN deliver(w, SrvEvt("AudioChunki16", d.n, vowel))
    ELSE [w EXCEPT !.mgr = "err"]

\* the AudioChunk and AudioChunkWithVowel arms (ws.rs:57-97)
on_opus_chunk(w, f, vowel) ==
    LET d == opus_decode(f) IN
    IF d.ok THEN deliver(w, SrvEvt("AudioChunki16", d.n, vowel))
    ELSE w

\* SelectItem::Recv(Some(Ok(msg))) (ws.rs:47-122)
ws_recv(w0, f) ==
    LET w == [WsBegin(w0, "recv") EXCEPT !.frames = Append(@, f)] IN
    IF ~f.binary THEN w
    ELSE LET e == from_slice(f) IN
         IF ~e.ok THEN w
         ELSE CASE e.evt.t = "AudioChunk" -> on_opus_chunk(w, f, 0)
                [] e.evt.t = "AudioChunkWithVowel" -> on_opus_chunk(w, f, e.evt.v)
                [] OTHER -> deliver(w, e.evt)

\* SelectItem::Send(Some(msg)) (ws.rs:131-157); written tells whether the write
\* to the socket succeeds
ws_send(w0, written) ==
    LET w == [WsBegin(w0, "send") EXCEPT !.outq = Tail(@)]
        msg == Head(w0.outq) IN
    IF ~written THEN [w EXCEPT !.mgr = "err"]
    ELSE IF msg.t = "Close" THEN [w EXCEPT !.mgr = "ok"]
    ELSE [w EXCEPT !.wire = Append(@, msg)]

\* Server::send (ws.rs:279-285): the item enters the channel of a running
\* ws_manager, or the send fails
Server_send(w0, msg) ==
    LET w == WsBegin(w0, "Server::send") IN
    IF w.mgr = "run" THEN [w EXCEPT !.outq = Append(@, msg), !.res = ResOk]
    ELSE [w EXCEPT !.res = ResErr(<<"Failed to send message">>)]

\* Server::recv (ws.rs:305-312): the next event of the channel, or an error
\* once the channel is empty and its sender is gone
Server_recv(w0) ==
    LET w == WsBegin(w0, "Server::recv") IN
    IF w.inq # <<>> THEN [w EXCEPT !.inq = Tail(@), !.got = Append(@, Head(w0.inq))]
    ELSE [w EXCEPT !.res = ResErr(<<"WS channel closed">>)]

(***************************************************************************)
(* afe_worker (audio.rs:153-188): the thread that fetches analysis windows *)
(* from the acoustic front end and turns them into MicAudioChunk and       *)
(* MicAudioEnd events.  afe is the record                                  *)
(*   speech       the local `speech` flag: a segment is open               *)
(*   pc           "run", or "exited" once a send found the channel closed  *)
(*   last         the fetch result of the last iteration                   *)
(*   sent         the events the last iteration sent                       *)
(*   playing      the PLAYING atomic at the time of the last iteration     *)
(*   prev_speech  `speech` before the last iteration                       *)
(*   chunks       MicAudioChunk events sent since the last MicAudioEnd,    *)
(*                counted up to MaxSegment                                 *)
(*   prev_chunks  chunks before the last iteration                         *)
(*   skipped      a fetch error or an empty window occurred in the segment *)
(*                opened last                                              *)
(***************************************************************************)
MaxSegment == 2

\* AFE::fetch (audio.rs:113-143): Err(ret_value) or Ok(AFEResult {data, speech})
FetchErr == [ok |-> FALSE, data |-> <<>>, speech |-> FALSE]
FetchOk(data, sp) == [ok |-> TRUE, data |-> data, speech |-> sp]
NoFetch == [ok |-> FALSE, data |-> <<0>>, speech |-> FALSE]

EvtMicAudioChunk(d) == [t |-> "MicAudioChunk", d |-> d]
EvtMicAudioEnd == [t |-> "MicAudioEnd", d |-> <<>>]

AfeNew ==
    [speech |-> FALSE, pc |-> "run", last |-> NoFetch, sent |-> <<>>,
     playing |-> FALSE, prev_speech |-> FALSE, chunks |-> 0, prev_chunks |-> 0,
     skipped |-> FALSE]

\* faulty variant: an empty silence window closes the segment
afe_worker_iter_ends_on_empty(a, result, open) ==
    IF ~result.ok THEN [a EXCEPT !.sent = <<>>]
    ELSE IF result.speech /\ result.data # <<>>
    THEN IF open THEN [a EXCEPT !.speech = TRUE, !.sent = <<EvtMicAudioChunk(result.data)>>]
         ELSE [a EXCEPT !.speech = TRUE, !.sent = <<>>, !.pc = "exited"]
    ELSE IF a.speech /\ ~result.speech
    THEN IF open THEN [a EXCEPT !.speech = FALSE, !.sent = <<EvtMicAudioEnd>>]
         ELSE [a EXCEPT !.sent = <<>>, !.pc = "exited"]
    ELSE [a EXCEPT !.sent = <<>>]

\* one iteration of the loop (audio.rs:160-187); open: the receiver of the
\* event channel still exists, so that blocking_send returns Ok
afe_worker_iter(a, result, open) ==
    IF ~result.ok THEN [a EXCEPT !.sent = <<>>]
    ELSE IF result.data = <<>> THEN [a EXCEPT !.sent = <<>>]
    ELSE IF result.speech
    THEN IF open THEN [a EXCEPT !.speech = TRUE, !.sent = <<EvtMicAudioChunk(result.data)>>]
         ELSE [a EXCEPT !.speech = TRUE, !.sent = <<>>, !.pc = "exited"]
    ELSE IF a.speech
    THEN IF open THEN [a EXCEPT !.speech = FALSE, !.sent = <<EvtMicAudioEnd>>]
         ELSE [a EXCEPT !.sent = <<>>, !.pc = "exited"]
    ELSE [a EXCEPT !.sent = <<>>]

\* the record of the iteration: what was fetched, what the flags were
afe_observe(a0, a, result, playing) ==
    LET n == IF a.sent = <<EvtMicAudioEnd>> THEN 0
             ELSE IF a.sent # <<>> /\ a0.chunks < MaxSegment THEN a0.chunks + 1
             ELSE a0.chunks
    IN [a EXCEPT !.last = result, !.playing = playing, !.prev_speech = a0.speech,
                 !.prev_chunks = a0.chunks, !.chunks = n,
                 !.skipped = IF a.sent # <<>> /\ a.speech /\ ~a0.speech THEN FALSE
                             ELSE a0.skipped
                                  \/ (a0.speech /\ (~result.ok \/ result.data = <<>>))]

(***************************************************************************)
(* Direct use of the SendBuffer API.                                       *)
(***************************************************************************)
BufInit ==
    /\ cache = <<>>
    /\ rest = <<>>
    /\ volume \in {VOL_NEW, VOL_NUM_INIT}
    /\ notified = [id \in 1..MaxNotify |-> 0]
    /\ nextNotify = 1
    /\ op = "new"
    /\ ret = NoCall
    /\ sig = <<>>
    /\ cleared = <<>>
    /\ pushed = <<>>
    /\ yielded = <<>>
    /\ hello_wav = WAKE_WAV
    /\ allow_speech = FALSE
    /\ speech = FALSE
    /\ play_data = <<>>
    /\ evt_ch = <<>>
    /\ loop_pc = "none"
    /\ app = AppNew
    /\ ws = WsNew
    /\ afe = AfeNew
    /\ call = NoCallYet

\* ret, sig and cleared describe the last operation only
NoResult == ret' = NoCall /\ sig' = <<>> /\ cleared' = <<>>

\* the buffer part of a push_i16 call
PushI16Op(data) ==
    /\ LET b == push_i16([cache |-> cache, rest |-> rest], data, volume, ChunkSize) IN
           /\ Len(b.cache) <= MaxCache
           /\ cache' = b.cache
           /\ rest' = b.rest
    /\ op' = "push_i16"
    /\ NoResult
    /\ UNCHANGED <<volume, notified, nextNotify>>

\* the buffer part of a get_chunk call
GetChunkOp ==
    LET r == get_chunk(cache) IN
        /\ cache' = r.cache
        /\ ret' = r.item
        /\ sig' = r.sig
        /\ notified' = Signal(notified, r.sig)
        /\ cleared' = <<>>
        /\ op' = "get_chunk"
        /\ UNCHANGED <<rest, volume, nextNotify>>

\* push_i16 / get_chunk with the record of what went in and what came out
PushI16 ==
    \E data \in SeqsUpTo(Samples, MaxLen) :
        /\ Len(pushed) + Len(data) <= MaxPushed
        /\ PushI16Op(data)
        /\ pushed' = pushed \o data
        /\ UNCHANGED yielded
        /\ UNCHANGED <<loopVars, app, ws, afe, call>>

GetChunk ==
    /\ GetChunkOp
    /\ yielded' = IF ret'.t = "Audio" THEN Append(yielded, ret'.d) ELSE yielded
    /\ UNCHANGED pushed
    /\ UNCHANGED <<loopVars, app, ws, afe, call>>

BufPushI16 ==
    \E data \in SeqsUpTo(BufSamples, MaxLen) :
        /\ PushI16Op(data)
        /\ UNCHANGED <<pushed, yielded>>
        /\ UNCHANGED <<loopVars, app, ws, afe, call>>

BufPushU8 ==
    \E data \in SeqsUpTo(Bytes, MaxBytes) :
        /\ LET b == push_u8([cache |-> cache, rest |-> rest], data, volume, ChunkSize) IN
               /\ Len(b.cache) <= MaxCache
               /\ cache' = b.cache
               /\ rest' = b.rest
        /\ op' = "push_u8"
        /\ NoResult
        /\ UNCHANGED <<volume, notified, nextNotify, pushed, yielded>>
        /\ UNCHANGED <<loopVars, app, ws, afe, call>>

\* SendBuffer::push_vowel (audio.rs:344-346)
BufPushVowel ==
    \E v \in Vowels :
        /\ Len(cache) < MaxCache
        /\ cache' = Append(cache, Vowel(v))
        /\ op' = "push_vowel"
        /\ NoResult
        /\ UNCHANGED <<rest, volume, notified, nextNotify, pushed, yielded>>
        /\ UNCHANGED <<loopVars, app, ws, afe, call>>

\* SendBuffer::push_back_end_speech (audio.rs:348-350) with a fresh Notify
BufPushBackEndSpeech ==
    /\ nextNotify <= MaxNotify
    /\ Len(cache) < MaxCache
    /\ cache' = Append(cache, EndSpeechItem(nextNotify))
    /\ nextNotify' = nextNotify + 1
    /\ op' = "push_back_end_speech"
    /\ NoResult
    /\ UNCHANGED <<rest, volume, notified, pushed, yielded>>
    /\ UNCHANGED <<loopVars, app, ws, afe, call>>

BufGetChunk ==
    /\ GetChunkOp
    /\ UNCHANGED <<pushed, yielded>>
    /\ UNCHANGED <<loopVars, app, ws, afe, call>>

BufClear ==
    LET r == clear(cache) IN
        /\ cleared' = cache
        /\ cache' = r.cache
        /\ sig' = r.sig
        /\ notified' = Signal(notified, r.sig)
        /\ ret' = NoCall
        /\ op' = "clear"
        /\ UNCHANGED <<rest, volume, nextNotify, pushed, yielded>>
        /\ UNCHANGED <<loopVars, app, ws, afe, call>>

(***************************************************************************)
(* SpecChunk: push_i16 and get_chunk only, from a new buffer at any volume *)
(* SpecBuf:   every SendBuffer operation, in any order                     *)
(***************************************************************************)
ChunkNext == PushI16 \/ GetChunk

SpecChunk == BufInit /\ [][ChunkNext]_vars

BufNext ==
    \/ BufPushI16
    \/ BufPushU8
    \/ BufPushVowel
    \/ BufPushBackEndSpeech
    \/ BufGetChunk
    \/ BufClear

SpecBuf == BufInit /\ [][BufNext]_vars

(***************************************************************************)
(* The `match event` of audio_task_run (audio.rs:468-513) on the loop      *)
(* state st = [cache, rest, volume, hello_wav, allow_speech, sig].         *)
(***************************************************************************)
handle_event(st, e, cs) ==
    CASE e.t = "Hello" ->
            LET c == clear(st.cache)
                b == push_u8([cache |-> c.cache, rest |-> st.rest], st.hello_wav,
                             st.volume, cs)
            IN [st EXCEPT !.allow_speech = TRUE,
                          !.cache = Append(b.cache, EndSpeechItem(e.v)),
                          !.rest = b.rest,
                          !.sig = c.sig]
      [] e.t = "SetHello" -> [st EXCEPT !.hello_wav = e.d]
      [] e.t = "StartSpeech" -> [st EXCEPT !.allow_speech = TRUE]
      [] e.t = "StopSpeech" -> [st EXCEPT !.allow_speech = FALSE]
      [] e.t = "ClearSpeech" ->
            LET c == clear(st.cache) IN [st EXCEPT !.cache = c.cache, !.sig = c.sig]
      [] e.t = "SpeechChunki16WithVowel" ->
            LET b == push_i16([cache |-> Append(st.cache, Vowel(e.v)), rest |-> st.rest],
                              e.d, st.volume, cs)
            IN [st EXCEPT !.cache = b.cache, !.rest = b.rest]
      [] e.t = "SpeechChunki16" ->
            LET b == push_i16([cache |-> st.cache, rest |-> st.rest], e.d, st.volume, cs)
            IN [st EXCEPT !.cache = b.cache, !.rest = b.rest]
      [] e.t = "EndSpeech" ->
            [st EXCEPT !.cache = st.cache \o <<Vowel(0), EndSpeechItem(e.v)>>]
      [] e.t = "VolSet" -> [st EXCEPT !.volume = e.v]
      [] OTHER -> st

(***************************************************************************)
(* The play_data_ loop (audio.rs:514-531): get_chunk until an Audio chunk  *)
(* or None; Vowel entries are sent to the orchestrator on the way.  item   *)
(* is what the last get_chunk call returned; panic is the unreachable!()   *)
(* arm.                                                                    *)
(***************************************************************************)
RECURSIVE play_loop(_, _, _)
play_loop(c, sg, vs) ==
    LET r == get_chunk(c) IN
        IF r.item.t = "Vowel"
        THEN play_loop(r.cache, sg \o r.sig, Append(vs, r.item.v))
        ELSE [item |-> r.item, cache |-> r.cache, sig |-> sg \o r.sig, vowels |-> vs,
              panic |-> (r.item.t = "EndSpeech")]

EvtVowel(v) == [t |-> "Vowel", v |-> v]

empty_buffer(cs) == [i \in 1..cs |-> 0]

(***************************************************************************)
(* One iteration of the loop of audio_task_run (audio.rs:467-566) with     *)
(* e the result of rx.try_recv() and ioOk whether the codec write and read *)
(* both went through with a full-size read.                                *)
(***************************************************************************)
audio_loop_iter(e, ioOk) ==
    /\ loop_pc = "run"
    /\ LET st0 == [cache |-> cache, rest |-> rest, volume |-> volume,
                   hello_wav |-> hello_wav, allow_speech |-> allow_speech,
                   sig |-> <<>>]
           st == handle_event(st0, e, ChunkSize)
           p == IF st.allow_speech
                THEN play_loop(st.cache, <<>>, <<>>)
                ELSE [item |-> NoCall, cache |-> st.cache, sig |-> <<>>,
                      vowels |-> <<>>, panic |-> FALSE]
           has == p.item.t = "Audio"
           data == IF has THEN p.item.d ELSE empty_buffer(ChunkSize)
       IN
           /\ Len(st.cache) <= MaxCache
           \* tx.blocking_send waits for room in the event channel
           /\ Len(evt_ch) + Len(p.vowels) <= EvtCap
           /\ cache' = p.cache
           /\ rest' = st.rest
           /\ volume' = st.volume
           /\ hello_wav' = st.hello_wav
           /\ allow_speech' = st.allow_speech
           /\ sig' = st.sig \o p.sig
           /\ notified' = Signal(notified, st.sig \o p.sig)
           /\ cleared' = <<>>
           /\ ret' = p.item
           /\ op' = e.t
           /\ evt_ch' = evt_ch \o [i \in 1..Len(p.vowels) |-> EvtVowel(p.vowels[i])]
           /\ speech' = IF p.panic THEN speech ELSE has
           /\ play_data' = IF p.panic THEN play_data ELSE data
           /\ loop_pc' = IF p.panic \/ (ioOk /\ Len(data) # ChunkSize) THEN "panic"
                         ELSE IF ioOk THEN "run" ELSE "exited"

\* the iteration where the session is not followed
AudioIter(e, ioOk) ==
    /\ audio_loop_iter(e, ioOk)
    /\ UNCHANGED <<pushed, yielded, app, ws, afe, call>>

\* events the orchestrator puts on the player channel (app.rs:273, 349, 499,
\* 515, 609), and StopSpeech
AudioEvents ==
    {EvSetHello(h) : h \in HelloWavs}
        \cup {EvStartSpeech, EvStopSpeech, EvClearSpeech}
        \cup {EvSpeechChunki16WithVowel(d, v) : d \in SeqsUpTo(BufSamples, MaxLen),
                                                v \in Vowels}
        \cup {EvVolSet(v) : v \in VolInputs}

\* an iteration that finds no event, or an event carrying no completion marker
AudioLoopStep ==
    \E e \in AudioEvents \cup {NoEvent}, ioOk \in BOOLEAN :
        /\ AudioIter(e, ioOk)
        /\ UNCHANGED nextNotify

\* an iteration that finds a Hello or an EndSpeech with a fresh Notify
AudioLoopMarker ==
    \E e \in {EvHello(nextNotify), EvEndSpeech(nextNotify)}, ioOk \in BOOLEAN :
        /\ nextNotify <= MaxNotify
        /\ AudioIter(e, ioOk)
        /\ nextNotify' = nextNotify + 1

\* the orchestrator takes the next event off the channel (app.rs:90)
EvtRecv ==
    /\ evt_ch # <<>>
    /\ evt_ch' = Tail(evt_ch)
    /\ UNCHANGED <<bufVars, hello_wav, allow_speech, speech, play_data, loop_pc, app,
                   ws, afe, call>>

\* audio_task_run up to the loop (audio.rs:454-465)
AudioInit ==
    /\ cache = <<>>
    /\ rest = <<>>
    /\ volume = VOL_NUM_INIT
    /\ notified = [id \in 1..MaxNotify |-> 0]
    /\ nextNotify = 1
    /\ op = "new"
    /\ ret = NoCall
    /\ sig = <<>>
    /\ cleared = <<>>
    /\ pushed = <<>>
    /\ yielded = <<>>
    /\ hello_wav = WAKE_WAV
    /\ allow_speech = FALSE
    /\ speech = FALSE
    /\ play_data = <<>>
    /\ evt_ch = <<>>
    /\ loop_pc = "run"
    /\ app = AppNew
    /\ ws = WsNew
    /\ afe = AfeNew
    /\ call = NoCallYet

AudioNext == AudioLoopStep \/ AudioLoopMarker \/ EvtRecv

\* SpecAudio: the real-time loop fed any sequence of AudioEvents
SpecAudio == AudioInit /\ [][AudioNext]_vars

(***************************************************************************)
(* SpecVolume: get_volume applied to one sample, any 16-bit value, at one  *)
(* level after another.  pushed holds the sample, volume the level of the  *)
(* last call and ret its result.                                           *)
(***************************************************************************)
I16_MIN == -32768
I16_MAX == 32767

VolumeInit ==
    /\ cache = <<>> /\ rest = <<>>
    /\ volume = VOL_NUM_INIT
    /\ notified = [id \in 1..MaxNotify |-> 0] /\ nextNotify = 1
    /\ op = "new" /\ ret = NoCall /\ sig = <<>> /\ cleared = <<>>
    /\ \E s \in I16_MIN..I16_MAX : pushed = <<s>>
    /\ yielded = <<>>
    /\ hello_wav = WAKE_WAV /\ allow_speech = FALSE /\ speech = FALSE
    /\ play_data = <<>> /\ evt_ch = <<>> /\ loop_pc = "none"
    /\ app = AppNew
    /\ ws = WsNew
    /\ afe = AfeNew
    /\ call = NoCallYet

GetVolume ==
    \E level \in VolLevels :
        /\ volume' = level
        /\ ret' = Audio(<<get_volume(pushed[1], level)>>)
        /\ op' = "get_volume"
        /\ UNCHANGED <<cache, rest, notified, nextNotify, sig, cleared, pushed, yielded>>
        /\ UNCHANGED <<loopVars, app, ws, afe, call>>

SpecVolume == VolumeInit /\ [][GetVolume]_vars

(***************************************************************************)
(* The AFE worker next to the real-time loop.  Both threads send on clones *)
(* of the same bounded event channel (audio.rs:440-447); the loop stores   *)
(* its `speech` flag in PLAYING (audio.rs:533-539) and the worker runs     *)
(* whenever fetch() returns.                                               *)
(***************************************************************************)
AfeData == SeqsUpTo(BufSamples, 1)

FetchResults == {FetchErr} \cup {FetchOk(d, sp) : d \in AfeData, sp \in BOOLEAN}

\* one iteration of afe_worker; blocking_send waits for room in the channel
AfeFetch ==
    \E result \in FetchResults, open \in BOOLEAN :
        /\ afe.pc = "run"
        /\ LET a == afe_worker_iter(afe, result, open) IN
               /\ Len(evt_ch) + Len(a.sent) <= EvtCap
               /\ afe' = afe_observe(afe, a, result, speech)
               /\ evt_ch' = evt_ch \o a.sent
        /\ UNCHANGED <<bufVars, hello_wav, allow_speech, speech, play_data, loop_pc, app,
                       ws, call>>

\* what the orchestrator sends the loop while a reply is played
AfeAudioEvents ==
    {EvStartSpeech, EvStopSpeech, NoEvent}
        \cup {EvSpeechChunki16WithVowel(d, v) : d \in SeqsUpTo(BufSamples, ChunkSize),
                                                v \in {1}}

AfePlayback ==
    \E e \in AfeAudioEvents :
        /\ AudioIter(e, TRUE)
        /\ UNCHANGED nextNotify

AfeNext == AfeFetch \/ AfePlayback \/ EvtRecv

SpecAfe == AudioInit /\ [][AfeNext]_vars

(***************************************************************************)
(* The loop of main_work (app.rs:665-720): one action per event that       *)
(* select_evt (app.rs:55-98) can deliver.                                  *)
(***************************************************************************)
\* outcomes of the successive reconnect() calls of one reconnect_with_retry
ReconnectOutcomes ==
    {o \in [1..RECONNECT_RETRIES -> BOOLEAN] : \A i \in 1..RECONNECT_RETRIES : o[i] = (i = 2)}
    \cup {[i \in 1..RECONNECT_RETRIES |-> FALSE]}
\* lengths of the sample blocks the microphone task delivers
MicLens == {5600, 165600}
\* lengths of decoded audio chunks (at most 1920 samples, ws.rs:32)
AudioLens == {1920}
\* vowels carried by audio chunks
ChunkVowels == {1}
\* vowels carried by audio chunks where the order of chunks is followed
RespVowels == {1, 2}
\* accumulated sample counts of SubmitState at which behaviours are observed
SubmitTotals == {5600, 8000, 11200, 165600, 171200}
\* most chunks of one response that are delivered
MaxChunks == 2
\* longest time a response is followed, in ms
MaxRespMs == 240
\* largest reading of the metrics clock that is told apart, in ms
MaxElapsedMs == 240
\* steps of wall time, in ms
TickMs == {120}

\* ServerEvent values the transport hands over (protocol.rs)
ServerEventsWith(vowels) ==
    {SrvEvt(t, 0, 0) : t \in {"EndVad", "ASR", "Choices", "StartAudio",
                              "EndResponse", "EndAudio"}}
    \cup {SrvEvt("AudioChunki16", n, v) : n \in AudioLens, v \in vowels}

ServerEvents == ServerEventsWith(ChunkVowels)

\* the observer's account of the response in progress
observe_response(a, b) ==
    IF b.state # "Speaking" THEN [b EXCEPT !.resp_elapsed = 0, !.resp_samples = 0]
    ELSE IF b.opn = "StartAudio" THEN [b EXCEPT !.resp_elapsed = 0, !.resp_samples = 0]
    ELSE IF b.opn = "AudioChunki16" THEN [b EXCEPT !.resp_samples = @ + b.arg]
    ELSE b

\* the observer's account of the last EndVad that was handled (app.rs:456-467):
\* whether the metrics were stale then; kept only where it is asked for
observe_vad(a, b) ==
    IF a.stale_at_vad # "off" /\ b.opn = "EndVad" /\ a.state = "Submitting"
    THEN [b EXCEPT !.stale_at_vad = IF is_timeout(a.elapsed) THEN "stale" ELSE "fresh"]
    ELSE b

\* the vowel tags of the speech chunks among the playback events out
SpeechTags(out) ==
    LET sp == SelectSeq(out, LAMBDA e : e.t = "SpeechChunki16WithVowel")
    IN [i \in 1..Len(sp) |-> sp[i].v]

\* the observer's account of the audio chunks, kept only where it is asked
\* for (chunks_handled is -1 elsewhere): how many AudioChunki16 events were
\* handled in Speaking, the tags of the speech chunks sent to the audio loop
\* so far, and how many chunks had been handled at the last barge-in
observe_chunks(a, b) ==
    IF a.chunks_handled < 0 THEN b
    ELSE [b EXCEPT
            !.chunks_handled = IF b.opn = "AudioChunki16" /\ a.state = "Speaking"
                               THEN @ + 1 ELSE @,
            !.chunks_sent = @ \o SpeechTags(b.player_out),
            !.chunks_cut = IF b.opn = "mic" /\ a.state = "Speaking" /\ b.state = "Submitting"
                           THEN a.chunks_handled ELSE @]

observe(a, b) == observe_chunks(a, observe_vad(a, observe_response(a, b)))

AppStep(b) == /\ app' = observe(app, b)
              /\ UNCHANGED <<bufVars, loopVars, ws, afe, call>>

\* Event::Event(K0) (app.rs:667-671)
KeyK0 ==
    /\ app.pc = "run"
    /\ \E outcomes \in ReconnectOutcomes : AppStep(handle_key0(app, outcomes))

\* Event::Event(K0_) (app.rs:672-677)
KeyK0Long ==
    /\ app.pc = "run"
    /\ AppStep(IF app.voice_interrupt
               THEN trigger_interrupt(Begin(app, "k0_", 0))
               ELSE Begin(app, "k0_", 0))

\* Event::Event(IDLE), the 5-minute timeout of select_evt (app.rs:685-687)
IdleTimeout ==
    /\ app.pc = "run"
    /\ AppStep(goto_idle(Begin(app, "idle", 0)))

\* Event::MicAudioChunk (app.rs:699-701)
MicAudioChunkOf(lens) ==
    /\ app.pc = "run"
    /\ \E n \in lens, outcomes \in ReconnectOutcomes :
          /\ app.submit_audio + n \in SubmitTotals
          /\ AppStep(handle_mic_audio(app, outcomes, n))

MicAudioChunk == MicAudioChunkOf(MicLens)

\* Event::ServerEvent, not selected while is_block_server (app.rs:72-78, 708-710)
ServerEventOf(events) ==
    /\ app.pc = "run"
    /\ ~is_block_server(app)
    /\ \E evt \in events :
          /\ (evt.t = "AudioChunki16" /\ app.state = "Speaking") =>
                /\ app.resp_samples + evt.n <= MaxChunks * evt.n
                /\ Len(app.recv_audio_buffer) < MaxChunks
          /\ AppStep(handle_server_event(app, evt))

ServerEvent == ServerEventOf(ServerEvents)

\* the ws_manager task of the current connection returns (ws.rs:123-130)
WsDown ==
    /\ app.pc = "run"
    /\ app.ws_alive
    /\ AppStep([Begin(app, "ws_down", 0) EXCEPT !.ws_alive = FALSE])

\* the reading of the metrics clock after dt more milliseconds; readings
\* beyond MaxElapsedMs are not told apart (none of them is a timeout unless
\* the reading before was one, and speed() of any of them is 1.0 or more)
clock_after(e, dt) ==
    IF e + dt <= MaxElapsedMs THEN e + dt
    ELSE IF e < MaxElapsedMs THEN MaxElapsedMs ELSE e

\* wall time passes
Tick ==
    /\ app.pc = "run"
    /\ \E dt \in TickMs :
          /\ app.state = "Speaking" => app.resp_elapsed + dt <= MaxRespMs
          \* a step of time that no reading can tell is not taken
          /\ app.state = "Speaking" \/ clock_after(app.elapsed, dt) # app.elapsed
          /\ LET b == Begin(app, "tick", dt) IN
             AppStep([b EXCEPT !.elapsed = clock_after(@, dt),
                               !.resp_elapsed = @ + dt])

AppInit ==
    /\ cache = <<>> /\ rest = <<>> /\ volume = VOL_NUM_INIT
    /\ notified = [id \in 1..MaxNotify |-> 0] /\ nextNotify = 1
    /\ op = "new" /\ ret = NoCall /\ sig = <<>> /\ cleared = <<>>
    /\ pushed = <<>> /\ yielded = <<>>
    /\ hello_wav = WAKE_WAV /\ allow_speech = FALSE /\ speech = FALSE
    /\ play_data = <<>> /\ evt_ch = <<>> /\ loop_pc = "none"
    /\ \E f \in BOOLEAN : app = [AppNew EXCEPT !.voice_interrupt = f]
    /\ ws = WsNew
    /\ afe = AfeNew
    /\ call = NoCallYet

AppNext ==
    \/ KeyK0
    \/ KeyK0Long
    \/ IdleTimeout
    \/ MicAudioChunk
    \/ ServerEvent
    \/ WsDown
    \/ Tick

SpecApp == AppInit /\ [][AppNext]_vars

(***************************************************************************)
(* SpecResp: the session with the transport up and short utterances, fed   *)
(* audio chunks that can be told apart, to follow the order in which       *)
(* response audio reaches the player.                                      *)
(***************************************************************************)
\* short sample blocks, one of exactly 0.5 s
RespMicLens == {5600, 8000}

RespMicAudioChunk == MicAudioChunkOf(RespMicLens)

RespServerEvent == ServerEventOf(ServerEventsWith(RespVowels))

RespNext ==
    \/ KeyK0
    \/ KeyK0Long
    \/ RespMicAudioChunk
    \/ RespServerEvent
    \/ Tick

SpecResp == AppInit /\ [][RespNext]_vars

(***************************************************************************)
(* SpecHello: the greeting download.  The server may send HelloStart,      *)
(* HelloChunk and HelloEnd in any order, among other events.  The observer *)
(* keeps the payloads of the HelloChunk events received since the last     *)
(* HelloStart, and those received since the last HelloStart or HelloEnd.   *)
(***************************************************************************)
MaxHello == 4
HelloPayloads == {<<1>>, <<2, 3>>}

SrvHelloChunk(d) == [t |-> "HelloChunk", n |-> Len(d), v |-> 0, d |-> d]

HelloEvents ==
    {SrvEvt("HelloStart", 0, 0), SrvEvt("HelloEnd", 0, 0)}
        \cup {SrvHelloChunk(d) : d \in HelloPayloads}

observe_hello(b, evt) ==
    CASE evt.t = "HelloStart" ->
            [b EXCEPT !.hello_since_start = <<>>, !.hello_since_mark = <<>>]
      [] evt.t = "HelloChunk" ->
            [b EXCEPT !.hello_since_start = @ \o evt.d, !.hello_since_mark = @ \o evt.d]
      [] evt.t = "HelloEnd" -> [b EXCEPT !.hello_since_mark = <<>>]
      [] OTHER -> b

HelloServerEvent ==
    /\ app.pc = "run"
    /\ ~is_block_server(app)
    /\ \E evt \in HelloEvents :
          /\ evt.t = "HelloChunk" => Len(app.hello_since_start) + Len(evt.d) <= MaxHello
          /\ AppStep(observe_hello(handle_server_event(app, evt), evt))

HelloOtherEvents == {SrvEvt(t, 0, 0) : t \in {"ASR", "Choices", "StartAudio", "EndAudio"}}

HelloOtherServerEvent == ServerEventOf(HelloOtherEvents)

HelloNext ==
    \/ HelloServerEvent
    \/ HelloOtherServerEvent
    \/ KeyK0

SpecHello == AppInit /\ [][HelloNext]_vars

(***************************************************************************)
(* SpecMetrics: DownloadMetrics::speed read once, and read again with the  *)
(* elapsed time and the byte count both doubled.                           *)
(***************************************************************************)
MaxMetricsMs == 1500
MetricsSizes == {1, 3, 640, 1000}

MetricsInit ==
    /\ cache = <<>> /\ rest = <<>> /\ volume = VOL_NUM_INIT
    /\ notified = [id \in 1..MaxNotify |-> 0] /\ nextNotify = 1
    /\ op = "new" /\ ret = NoCall /\ sig = <<>> /\ cleared = <<>>
    /\ pushed = <<>> /\ yielded = <<>>
    /\ hello_wav = WAKE_WAV /\ allow_speech = FALSE /\ speech = FALSE
    /\ play_data = <<>> /\ evt_ch = <<>> /\ loop_pc = "none"
    /\ \E t \in 1..MaxMetricsMs, b \in MetricsSizes :
          app = [AppNew EXCEPT !.elapsed = t, !.data_size = b]
    /\ ws = WsNew
    /\ afe = AfeNew
    /\ call = NoCallYet

MetricsSpeed ==
    /\ app.opn = "start"
    /\ app' = [app EXCEPT !.speed = speed_f64(app.elapsed, app.data_size),
                          !.opn = "speed"]
    /\ UNCHANGED <<bufVars, loopVars, ws, afe, call>>

MetricsSpeedDoubled ==
    /\ app.opn = "speed"
    /\ app' = [app EXCEPT !.elapsed = 2 * app.elapsed,
                          !.data_size = 2 * app.data_size,
                          !.speed = speed_f64(2 * app.elapsed, 2 * app.data_size),
                          !.opn = "speed_doubled"]
    /\ UNCHANGED <<bufVars, loopVars, ws, afe, call>>

MetricsNext == MetricsSpeed \/ MetricsSpeedDoubled

SpecMetrics == MetricsInit /\ [][MetricsNext]_vars

(***************************************************************************)
(* SpecSpeed: the session over several responses, with the record of what  *)
(* the metrics clock showed at the last EndVad.                            *)
(***************************************************************************)
SpeedMicLens == {5600}

SpeedMicAudioChunk == MicAudioChunkOf(SpeedMicLens)

SpeedInit ==
    /\ cache = <<>> /\ rest = <<>> /\ volume = VOL_NUM_INIT
    /\ notified = [id \in 1..MaxNotify |-> 0] /\ nextNotify = 1
    /\ op = "new" /\ ret = NoCall /\ sig = <<>> /\ cleared = <<>>
    /\ pushed = <<>> /\ yielded = <<>>
    /\ hello_wav = WAKE_WAV /\ allow_speech = FALSE /\ speech = FALSE
    /\ play_data = <<>> /\ evt_ch = <<>> /\ loop_pc = "none"
    /\ \E f \in BOOLEAN :
          app = [AppNew EXCEPT !.voice_interrupt = f, !.stale_at_vad = "none"]
    /\ ws = WsNew
    /\ afe = AfeNew
    /\ call = NoCallYet

SpeedNext ==
    \/ KeyK0
    \/ SpeedMicAudioChunk
    \/ ServerEvent
    \/ Tick

SpecSpeed == SpeedInit /\ [][SpeedNext]_vars

(***************************************************************************)
(* SpecKeys: the session driven by its keys, with Choices events that      *)
(* carry lists of several lengths, the empty list among them.              *)
(***************************************************************************)
\* numbers of items of a Choices event
ChoiceItems == {0, 1, 3}

KeysEvents ==
    {SrvEvt("Choices", n, 0) : n \in ChoiceItems}
    \cup {SrvEvt(t, 0, 0) : t \in {"DisplayText", "StartAudio", "EndAudio"}}

KeysServerEvent == ServerEventOf(KeysEvents)

\* Event::Event(VOL_UP) (app.rs:678-680)
VolUp ==
    /\ app.pc = "run"
    /\ \E wraps \in BOOLEAN : AppStep(handle_key_up(app, wraps))

\* Event::Event(VOL_DOWN) (app.rs:681-683)
VolDown ==
    /\ app.pc = "run"
    /\ \E wraps \in BOOLEAN : AppStep(handle_key_down(app, wraps))

KeysNext ==
    \/ KeyK0
    \/ KeysServerEvent
    \/ VolUp
    \/ VolDown
    \/ WsDown

SpecKeys == AppInit /\ [][KeysNext]_vars

(***************************************************************************)
(* SpecWs: the Server and the ws_manager task of its connection, driven by *)
(* the calls of the session and by what the socket does.                   *)
(***************************************************************************)
MaxConns == 3
MaxRetries == 3
MaxFrames == 3
MaxOut == 2

\* what one connect() call does: it connects, or fails with an error
ConnectOutcomes == {"ok", "refused"}
RetryBounds == 0..MaxRetries
ConnectRuns(n) == [1..n -> ConnectOutcomes]

Frame(binary, tag, opus, n, v) ==
    [binary |-> binary, tag |-> tag, opus |-> opus, n |-> n, v |-> v]
\* messages of the socket: events, audio with a payload that decodes and
\* with one that does not, a frame that is no ServerEvent, a text message
Frames ==
    {Frame(TRUE, "ASR", FALSE, 0, 0), Frame(TRUE, "StartAudio", FALSE, 0, 0),
     Frame(TRUE, "AudioChunk", TRUE, 1920, 0),
     Frame(TRUE, "AudioChunk", FALSE, 0, 0),
     Frame(TRUE, "AudioChunkWithVowel", TRUE, 1920, 2),
     Frame(TRUE, "AudioChunkWithVowel", FALSE, 0, 2),
     Frame(TRUE, "?", FALSE, 0, 0),
     Frame(FALSE, "ASR", FALSE, 0, 0)}
\* SubmitItem values (ws.rs:12-16)
SubmitItems == {[t |-> "StartChat", n |-> 0], [t |-> "Close", n |-> 0]}

WsStep(w) == /\ ws' = w
             /\ UNCHANGED <<bufVars, loopVars, app, afe, call>>

\* a call of Server::reconnect_with_retry (app.rs:327, 338, 412)
WsReconnect ==
    /\ ws.conns < MaxConns
    /\ \E n \in RetryBounds : \E outcomes \in ConnectRuns(n) :
          WsStep(Server_reconnect_with_retry(ws, outcomes, n))

\* ws.next() yields a message (ws.rs:47)
WsRecvOf(limit) ==
    /\ ws.mgr = "run"
    /\ Len(ws.frames) < limit
    /\ \E f \in Frames : WsStep(ws_recv(ws, f))

WsRecv == WsRecvOf(MaxFrames)

\* ws.next() yields None: the stream ended (ws.rs:123-126)
WsStreamEnd ==
    /\ ws.mgr = "run"
    /\ WsStep([WsBegin(ws, "stream end") EXCEPT !.mgr = "ok"])

\* ws.next() yields an error (ws.rs:127-130)
WsRecvError ==
    /\ ws.mgr = "run"
    /\ WsStep([WsBegin(ws, "recv error") EXCEPT !.mgr = "err"])

\* rx.recv() yields an item (ws.rs:131-157)
WsSend ==
    /\ ws.mgr = "run"
    /\ ws.outq # <<>>
    /\ \E written \in BOOLEAN : WsStep(ws_send(ws, written))

\* a call of Server::send
ServerSend ==
    /\ Len(ws.outq) + Len(ws.wire) < MaxOut
    /\ \E msg \in SubmitItems : WsStep(Server_send(ws, msg))

\* a call of Server::recv that returns
ServerRecv ==
    /\ ws.inq # <<>> \/ ws.mgr # "run"
    /\ WsStep(Server_recv(ws))

WsNext ==
    \/ WsRecv
    \/ WsStreamEnd
    \/ WsRecvError
    \/ WsSend
    \/ ServerSend
    \/ ServerRecv

\* Server::new has connected; the session has not started
WsInit ==
    /\ cache = <<>> /\ rest = <<>> /\ volume = VOL_NUM_INIT
    /\ notified = [id \in 1..MaxNotify |-> 0] /\ nextNotify = 1
    /\ op = "new" /\ ret = NoCall /\ sig = <<>> /\ cleared = <<>>
    /\ pushed = <<>> /\ yielded = <<>>
    /\ hello_wav = WAKE_WAV /\ allow_speech = FALSE /\ speech = FALSE
    /\ play_data = <<>> /\ evt_ch = <<>> /\ loop_pc = "none"
    /\ app = AppNew
    /\ ws = WsNew
    /\ afe = AfeNew
    /\ call = NoCallYet

SpecWs == WsInit /\ [][WsNext]_vars

(***************************************************************************)
(* SpecConn: the same with calls of reconnect_with_retry, on connections   *)
(* that carry one message each.                                            *)
(***************************************************************************)
ConnFrames == 1

ConnRecv == WsRecvOf(ConnFrames)

ConnNext ==
    \/ WsReconnect
    \/ ConnRecv
    \/ WsStreamEnd
    \/ WsRecvError
    \/ WsSend
    \/ ServerSend
    \/ ServerRecv

SpecConn == WsInit /\ [][ConnNext]_vars

(***************************************************************************)
(* SpecPlay: a session of responses with a live transport, with the        *)
(* fairness of select_evt (app.rs:55-98): it polls the transport whenever  *)
(* is_block_server is false, so a server event that stays selectable is    *)
(* handled in the end, and it returns after NORMAL_TIMEOUT at the latest,   *)
(* with IDLE unless another event came first (here a microphone block).    *)
(* Keys come when the user presses them.  No task of the program sends     *)
(* Event::PlaybackEnded (the senders of app::Event are audio.rs:175, 182,  *)
(* 519, ws.rs:314, main.rs:535, 545 and the key tasks of boards/), so      *)
(* there is no action for it.                                              *)
(***************************************************************************)
PlayMicLens == {5600, 8000}

PlayMicAudioChunk == MicAudioChunkOf(PlayMicLens)

PlayNext ==
    \/ KeyK0
    \/ IdleTimeout
    \/ PlayMicAudioChunk
    \/ ServerEvent

SpecPlay ==
    /\ AppInit /\ [][PlayNext]_vars
    /\ WF_vars(ServerEvent)
    /\ WF_vars(IdleTimeout \/ PlayMicAudioChunk)

(***************************************************************************)
(* C1 (as claimed): at pass-through volume, once get_chunk has returned    *)
(* None the Audio chunks it yielded each hold ChunkSize samples, except    *)
(* possibly a shorter last one, and their concatenation is exactly the     *)
(* concatenation of all samples pushed by push_i16, in push order.         *)
(***************************************************************************)
ChunkSizesOk ==
    /\ \A i \in 1..(Len(yielded) - 1) : Len(yielded[i]) = ChunkSize
    /\ yielded # <<>> => Len(yielded[Len(yielded)]) \in 1..ChunkSize

CE_C1_AllPushedSamplesYielded ==
    (volume = VOL_PASS /\ op = "get_chunk" /\ ret = None)
        => (ChunkSizesOk /\ Flatten(yielded) = pushed)

(***************************************************************************)
(* C2: clear() signals every EndSpeech marker that is in the queue when it *)
(* is called, also those behind audio not played yet, exactly once, and    *)
(* leaves the queue empty; no marker leaves the queue unsignalled.         *)
(***************************************************************************)
MarkersIn(c) == {c[i].v : i \in {j \in 1..Len(c) : c[j].t = "EndSpeech"}}

Thm_C2_ClearSignalsEveryMarker ==
    /\ op = "clear" =>
          /\ cache = <<>>
          /\ \A id \in MarkersIn(cleared) : notified[id] = 1
          /\ MarkersIn(cleared) = {sig[i] : i \in 1..Len(sig)}
    /\ \A id \in 1..(nextNotify - 1) :
          IF id \in MarkersIn(cache) THEN notified[id] = 0 ELSE notified[id] = 1

\* a clear() that found a marker queued behind an Audio chunk
Wit_C2_MarkerBehindAudio ==
    /\ op = "clear"
    /\ \E i, j \in 1..Len(cleared) :
          i < j /\ cleared[i].t = "Audio" /\ cleared[j].t = "EndSpeech"

(***************************************************************************)
(* C3: get_chunk never returns an EndSpeech marker: markers it pops are    *)
(* signalled and skipped and the call returns an Audio or Vowel entry or   *)
(* None, so the unreachable!() arm of the real-time loop is never run.     *)
(***************************************************************************)
Thm_C3_GetChunkSkipsMarkers ==
    /\ ret.t \in {"NoCall", "None", "Audio", "Vowel"}
    /\ loop_pc # "panic"
    /\ \A i \in 1..Len(sig) : notified[sig[i]] = 1

\* an iteration whose get_chunk popped a marker and went on to return audio
Wit_C3_MarkerSkippedBeforeAudio ==
    /\ loop_pc = "run"
    /\ op \in {"NoEvent", "SpeechChunki16", "SpeechChunki16WithVowel"}
    /\ sig # <<>>
    /\ ret.t = "Audio"

\* the fields of SubmitState
SubmitFields(a) == <<a.submit_audio, a.start_submit, a.audio_buffer, a.got_asr_result>>
SubmitCleared(a) == SubmitFields(a) = <<0, FALSE, 0, FALSE>>
\* the events of one kind among those a step sent
OfKind(out, t) == {i \in 1..Len(out) : out[i].t = t}

(***************************************************************************)
(* C4: from Idle, a K0 press whose reconnect_with_retry fails leaves the   *)
(* state Idle and leaves every field of SubmitState as it was.             *)
(***************************************************************************)
Thm_C4_FailedConnectStaysIdle ==
    [][(app.state = "Idle" /\ app'.opn = "k0" /\ app'.conn = "failed")
         => (app'.state = "Idle" /\ SubmitFields(app') = SubmitFields(app))]_vars

\* a failed connect from Idle, after all attempts, with samples pending in
\* SubmitState
Wit_C4_FailedConnectWithPendingSubmit ==
    /\ app.opn = "k0" /\ app.prev = "Idle" /\ app.conn = "failed"
    /\ app.attempts = RECONNECT_RETRIES
    /\ app.state = "Idle"
    /\ app.audio_buffer > 0

(***************************************************************************)
(* C5 (as claimed): a K0 press from Idle whose reconnect succeeds requests *)
(* hello playback from the audio loop, and the state is not Listening      *)
(* before the completion of that playback is signalled.                    *)
(***************************************************************************)
CE_C5_ConnectRequestsHello ==
    (app.opn = "k0" /\ app.prev = "Idle" /\ app.conn = "ok")
        => (OfKind(app.player_out, "Hello") # {} /\ app.state # "Listening")

CE_C7_AbortReturnsToListening ==
    [][(/\ app.state = "Submitting" /\ app'.opn = "mic" /\ app'.pc = "run"
        /\ app.submit_audio + app'.arg > ABORT_DUR
        /\ ~app.got_asr_result)
         => (SubmitCleared(app') /\ app'.state = "Listening")]_vars

(***************************************************************************)
(* C8: an EndVad handled in Submitting clears SubmitState and moves the    *)
(* state to Waiting; handled in any other state it changes neither the     *)
(* state nor SubmitState.                                                  *)
(***************************************************************************)
Thm_C8_EndVadOnlyInSubmitting ==
    [][app'.opn = "EndVad"
         => IF app.state = "Submitting"
            THEN SubmitCleared(app') /\ app'.state = "Waiting"
            ELSE /\ app'.state = app.state
                 /\ app'.index = app.index
                 /\ app'.block_server = app.block_server
                 /\ SubmitFields(app') = SubmitFields(app)]_vars

\* an EndVad that ended an utterance
Wit_C8_EndVadEndsUtterance ==
    /\ app.opn = "EndVad" /\ app.prev = "Submitting"
    /\ app.state = "Waiting"
    /\ SubmitCleared(app)

(***************************************************************************)
(* C9 (as claimed): after an EndResponse that leaves the state Listening,  *)
(* the pending mic buffer is empty, the submitted duration is 0 and        *)
(* got_asr_result is false.                                                *)
(***************************************************************************)
CE_C9_EndResponseClearsSubmit ==
    (app.opn = "EndResponse" /\ app.state = "Listening") => SubmitCleared(app)

\* the response in progress has delivered more audio than the wall time
\* since its StartAudio can play
FasterThanRealTime(a) == a.resp_samples > a.resp_elapsed * SAMPLES_PER_MS

\* the step forwarded its chunk and holds nothing back
Forwarded(a) ==
    /\ Len(a.player_out) = 1
    /\ a.player_out[1].t = "SpeechChunki16WithVowel"
    /\ a.player_out[1].d = a.arg
    /\ a.recv_audio_buffer = <<>>

(***************************************************************************)
(* C10 (as claimed): while a response arrives faster than real time, every *)
(* audio chunk handled in Speaking is forwarded to the playback channel at *)
(* once and recv_audio_buffer holds nothing.                               *)
(***************************************************************************)
CE_C10_FastResponseForwarded ==
    (app.opn = "AudioChunki16" /\ app.state = "Speaking" /\ FasterThanRealTime(app))
        => Forwarded(app)

(***************************************************************************)
(* C10 (amended): while the stored speed estimate (0.5 at start, replaced  *)
(* at the EndAudio of a measured response) is below 1.0, every audio chunk *)
(* handled in Speaking is forwarded to the playback channel at once and    *)
(* recv_audio_buffer holds nothing.                                        *)
(***************************************************************************)
Thm_C10_ForwardedWhileEstimateBelowLimit ==
    (app.opn = "AudioChunki16" /\ app.state = "Speaking" /\ below_limit(app.speed))
        => Forwarded(app)

\* the second chunk of a response that delivers 240 ms of audio in 120 ms
Wit_C10_SecondChunkAtHalfSpeed ==
    /\ app.opn = "AudioChunki16" /\ app.state = "Speaking"
    /\ below_limit(app.speed)
    /\ app.resp_elapsed = 120 /\ app.resp_samples = 3840
    /\ Forwarded(app)

\* the response in progress has delivered less audio than the wall time
\* since its StartAudio could have played
SlowerThanRealTime(a) == a.resp_samples < a.resp_elapsed * SAMPLES_PER_MS

\* the playback events that forward the chunks of a queue, in its order
AsSpeech(q) == [i \in 1..Len(q) |-> EvSpeechChunki16WithVowel(q[i].n, q[i].v)]

(***************************************************************************)
(* C11 (as claimed): while a response arrives slower than real time, no    *)
(* audio chunk handled in Speaking is forwarded to the playback channel;   *)
(* it is held in recv_audio_buffer.                                        *)
(***************************************************************************)
CE_C11_SlowResponseHeld ==
    (app.opn = "AudioChunki16" /\ app.state = "Speaking" /\ SlowerThanRealTime(app))
        => (app.player_out = <<>> /\ app.recv_audio_buffer # <<>>)

(***************************************************************************)
(* C11 (amended): while the stored speed estimate is 1.0 or more, an audio *)
(* chunk handled in Speaking is not forwarded but appended to              *)
(* recv_audio_buffer; an EndAudio handled in Speaking forwards everything  *)
(* recv_audio_buffer holds, oldest first, followed by EndSpeech, and       *)
(* leaves it empty.                                                        *)
(***************************************************************************)
Thm_C11_HeldWhileEstimateAtLimitThenFlushed ==
    [][/\ (/\ app.state = "Speaking" /\ app'.opn = "AudioChunki16"
           /\ ~below_limit(app.speed))
            => /\ app'.player_out = <<>>
               /\ Len(app'.recv_audio_buffer) = Len(app.recv_audio_buffer) + 1
               /\ SubSeq(app'.recv_audio_buffer, 1, Len(app.recv_audio_buffer))
                     = app.recv_audio_buffer
               /\ app'.recv_audio_buffer[Len(app'.recv_audio_buffer)].n = app'.arg
       /\ (app.state = "Speaking" /\ app'.opn = "EndAudio")
            => /\ app'.player_out
                     = AsSpeech(app.recv_audio_buffer) \o <<EvEndSpeech(0)>>
               /\ app'.recv_audio_buffer = <<>>]_vars

\* an EndAudio that flushed two held chunks of a response measured at 2.0
Wit_C11_TwoChunksFlushedAtEndAudio ==
    /\ app.opn = "EndAudio" /\ app.prev = "Speaking"
    /\ app.speed = Ratio(2, 1)
    /\ OfKind(app.player_out, "SpeechChunki16WithVowel") = {1, 2}
    /\ OfKind(app.player_out, "EndSpeech") = {3}
    /\ app.recv_audio_buffer = <<>>

(***************************************************************************)
(* C12: mic audio handled in Speaking that leaves the accumulated duration *)
(* below 0.5 s changes no state: the state stays Speaking, no reconnect is *)
(* attempted, no StartChat is sent and no ClearSpeech is sent.             *)
(***************************************************************************)
Thm_C12_ShortInterruptIgnored ==
    [][(/\ app.state = "Speaking" /\ app'.opn = "mic"
        /\ app.submit_audio + app'.arg < 8000)
         => /\ app'.state = "Speaking"
            /\ app'.block_server = app.block_server
            /\ app'.conn = "none" /\ app'.attempts = 0
            /\ app'.ws_out = <<>>
            /\ app'.player_out = <<>>]_vars

\* 0.35 s of mic audio accumulated in Speaking with interruption enabled
Wit_C12_ShortInterruptAccumulated ==
    /\ app.opn = "mic" /\ app.prev = "Speaking" /\ app.arg = 5600
    /\ app.allow_interrupt
    /\ app.submit_audio = 5600
    /\ app.state = "Speaking"

\* a barge-in cycle has been started by the step
BargeInStarted(a) == a.conn # "none"

(***************************************************************************)
(* C13 (as claimed): mic audio handled in Speaking with interruption       *)
(* enabled that brings the accumulated duration to 0.5 s or more starts a  *)
(* barge-in cycle (the transport is reconnected).                          *)
(***************************************************************************)
CE_C13_BargeInAtMinimum ==
    [][(/\ app.state = "Speaking" /\ app.allow_interrupt /\ app'.opn = "mic"
        /\ app.submit_audio + app'.arg >= 8000)
         => BargeInStarted(app')]_vars

(***************************************************************************)
(* C13 (amended): mic audio handled in Speaking with interruption enabled  *)
(* that brings the accumulated duration above 0.5 s starts one barge-in    *)
(* cycle: the transport is reconnected; on success StartChat is sent on    *)
(* the new connection, ClearSpeech is sent to the audio loop and the state *)
(* becomes Submitting with the captured samples still pending; if the      *)
(* reconnect fails the state stays Speaking and nothing is sent.           *)
(***************************************************************************)
Thm_C13_BargeInAboveMinimum ==
    [][(/\ app.state = "Speaking" /\ app.allow_interrupt /\ app'.opn = "mic"
        /\ app.submit_audio + app'.arg > 8000)
         => /\ BargeInStarted(app')
            /\ app'.audio_buffer = app.audio_buffer + app'.arg
            /\ app'.submit_audio = app.submit_audio + app'.arg
            /\ IF app'.conn = "ok"
               THEN /\ app'.ws_alive
                    /\ app'.ws_out = <<CmdStartChat>>
                    /\ app'.player_out = <<EvClearSpeech>>
                    /\ app'.state = "Submitting"
                    /\ ~app'.got_asr_result
               ELSE /\ app'.attempts = RECONNECT_RETRIES
                    /\ app'.state = "Speaking"
                    /\ app'.ws_out = <<>>
                    /\ app'.player_out = <<>>]_vars

\* a barge-in once two blocks of 0.35 s have accumulated
Wit_C13_BargeInOnNewConnection ==
    /\ app.opn = "mic" /\ app.prev = "Speaking" /\ app.conn = "ok"
    /\ app.state = "Submitting"
    /\ app.audio_buffer = 11200
    /\ app.player_out = <<EvClearSpeech>>

(***************************************************************************)
(* C14 (as claimed): in Choices, after a VOL_UP or VOL_DOWN event the      *)
(* selection index is at least 0 and less than the number of items, for    *)
(* every list of items; with the empty list the index arithmetic neither   *)
(* underflows nor panics and the index stays 0.                            *)
(***************************************************************************)
CE_C14_ChoiceIndexInRange ==
    (app.prev = "Choices" /\ app.opn \in {"vol_up", "vol_down"}) =>
        /\ app.pc = "run"
        /\ app.index >= 0
        /\ app.index < app.items \/ (app.items = 0 /\ app.index = 0)

(***************************************************************************)
(* C15: a K0 press handled in Choices{index} whose send the transport      *)
(* accepts sends exactly one command, Select carrying the index the state  *)
(* held, and moves the state to Waiting; when the send is refused nothing  *)
(* is sent and the state is left as it was.                                *)
(***************************************************************************)
Thm_C15_ConfirmSendsSelectThenWaiting ==
    [][(app.state = "Choices" /\ app'.opn = "k0")
         => IF app'.pc = "run"
            THEN /\ app'.ws_out = <<[t |-> "Select", n |-> app.index]>>
                 /\ app'.state = "Waiting"
            ELSE /\ ~app.ws_alive
                 /\ app'.ws_out = <<>>
                 /\ app'.state = "Choices"]_vars

\* the last of three choices confirmed
Wit_C15_LastChoiceSelected ==
    /\ app.opn = "k0" /\ app.prev = "Choices"
    /\ app.state = "Waiting"
    /\ app.ws_out = <<[t |-> "Select", n |-> 2]>>

\* what holds of every call of reconnect_with_retry whatever error it returns
RetryContract(w) ==
    /\ w.attempts <= w.retries
    /\ Len(w.outcomes) = w.attempts
    /\ \A i \in 1..(w.attempts - 1) : w.outcomes[i] # "ok"
    /\ w.res.ok <=> (w.attempts >= 1 /\ w.outcomes[w.attempts] = "ok")
    /\ w.res.ok => (w.tx = w.conns /\ w.tx # w.before.tx /\ w.mgr = "run")
    /\ ~w.res.ok => (w.attempts = w.retries /\ Channels(w) = w.before)

(***************************************************************************)
(* C16 (as claimed): reconnect_with_retry(n) makes at most n attempts,     *)
(* returns success at the first attempt that succeeds, returns an error    *)
(* only after n failed attempts, that error being the one of the last      *)
(* failed attempt, and on failure leaves the channels of the Server as     *)
(* they were.                                                              *)
(***************************************************************************)
CE_C16_LastErrorSurfaced ==
    ws.opn = "reconnect_with_retry" =>
        /\ RetryContract(ws)
        /\ (~ws.res.ok /\ ws.attempts > 0) => ws.res = ws.errs[Len(ws.errs)]

(***************************************************************************)
(* C16 (amended): reconnect_with_retry(n) makes at most n attempts,        *)
(* returns success at the first attempt that succeeds, with the channels   *)
(* of the new connection in the Server, and returns an error only after n  *)
(* failed attempts; the error is "All reconnect attempts failed" whatever  *)
(* the errors of the attempts were, and on failure the channels of the     *)
(* Server are as they were.                                                *)
(***************************************************************************)
Thm_C16_BoundedRetryFixedError ==
    ws.opn = "reconnect_with_retry" =>
        /\ RetryContract(ws)
        /\ ~ws.res.ok => ws.res.err = <<"All reconnect attempts failed">>

\* three failed attempts on a connection that has delivered an event
Wit_C16_ThreeFailuresKeepChannels ==
    /\ ws.opn = "reconnect_with_retry"
    /\ ws.retries = 3 /\ ws.attempts = 3 /\ ~ws.res.ok
    /\ ws.mgr = "run" /\ ws.inq # <<>>

\* a binary frame that is not the encoding of a ServerEvent
Undecodable(f) == f.binary /\ ~from_slice(f).ok

(***************************************************************************)
(* C17 (as claimed): a binary frame that does not decode to a ServerEvent  *)
(* ends the ws_manager of the connection with an error: it is the last     *)
(* message that task reads, and the task has returned Err.                 *)
(***************************************************************************)
CE_C17_UndecodableFrameEndsManager ==
    \A i \in 1..Len(ws.frames) :
        Undecodable(ws.frames[i]) => (i = Len(ws.frames) /\ ws.mgr = "err")

\* an audio frame whose payload is not a valid Opus packet
BadOpus(f) ==
    /\ f.binary /\ f.tag \in {"AudioChunk", "AudioChunkWithVowel"}
    /\ ~opus_decode(f).ok

\* the events the session is owed for the messages fs, oldest first: one
\* per frame that decodes, audio frames as AudioChunki16 with their vowel
\* (0 for AudioChunk), none for any other message
RECURSIVE EventsOf(_)
EventsOf(fs) ==
    IF fs = <<>> THEN <<>>
    ELSE LET f == Head(fs) IN
         (IF ~f.binary \/ Undecodable(f) \/ BadOpus(f) THEN <<>>
          ELSE IF f.tag = "AudioChunk" THEN <<SrvEvt("AudioChunki16", f.n, 0)>>
          ELSE IF f.tag = "AudioChunkWithVowel"
               THEN <<SrvEvt("AudioChunki16", f.n, f.v)>>
          ELSE <<SrvEvt(f.tag, f.n, f.v)>>)
         \o EventsOf(Tail(fs))

(***************************************************************************)
(* C18: an AudioChunk or AudioChunkWithVowel whose payload does not        *)
(* decompress is dropped: handling it delivers no event and leaves the     *)
(* ws_manager running, and the events received and waiting in the channel  *)
(* are, in order, exactly those of the other frames of the connection.     *)
(***************************************************************************)
Thm_C18_BadOpusDroppedOthersDelivered ==
    /\ ws.got \o ws.inq = EventsOf(ws.frames)
    /\ (/\ ws.opn = "recv" /\ ws.frames # <<>>
        /\ BadOpus(ws.frames[Len(ws.frames)])) => ws.mgr = "run"

\* a bad packet, then an event and an audio chunk received by the session
Wit_C18_EventsAfterBadPacket ==
    /\ Len(ws.frames) = 3
    /\ BadOpus(ws.frames[1])
    /\ ws.got = <<SrvEvt("StartAudio", 0, 0), SrvEvt("AudioChunki16", 1920, 2)>>
    /\ ws.mgr = "run"

(***************************************************************************)
(* C19 (as claimed): a failure of the transport (the ws_manager of the     *)
(* connection has returned, so that reads end and sends fail) never makes  *)
(* main_work return an error.                                              *)
(***************************************************************************)
CE_C19_TransportFailureKeepsLoop ==
    ~app.ws_alive => app.pc # "error"

\* the Vowel events the next iteration of the loop hands to tx.blocking_send
\* (audio.rs:517-521) when its rx.try_recv() yields e
VowelsOfIter(e) ==
    LET st == handle_event([cache |-> cache, rest |-> rest, volume |-> volume,
                            hello_wav |-> hello_wav,
                            allow_speech |-> allow_speech, sig |-> <<>>],
                           e, ChunkSize)
    IN IF st.allow_speech THEN play_loop(st.cache, <<>>, <<>>).vowels ELSE <<>>

(***************************************************************************)
(* C20 (as claimed): an iteration of the real-time loop never waits for    *)
(* room in the bounded event channel to the orchestrator: whatever the     *)
(* poll of the AudioEvent channel yields, every Vowel event the iteration  *)
(* sends finds room.                                                       *)
(***************************************************************************)
CE_C20_LoopNeverWaitsForRoom ==
    loop_pc = "run" =>
        \A e \in AudioEvents \cup {NoEvent} :
            Len(evt_ch) + Len(VowelsOfIter(e)) <= EvtCap

(***************************************************************************)
(* C21 (as claimed): whenever the transport is blocked (Speaking with      *)
(* block_server set by EndAudio), block_server is eventually cleared, so   *)
(* that server events are selected again.                                  *)
(***************************************************************************)
CE_C21_BlockEventuallyCleared ==
    is_block_server(app) ~> ~is_block_server(app)

(***************************************************************************)
(* C22 (as claimed): once the audio loop has handled ClearSpeech the send  *)
(* buffer holds nothing pushed before it, neither in the queue nor in the  *)
(* partial-chunk remainder, so that no such sample can reach the codec     *)
(* later.                                                                  *)
(***************************************************************************)
CE_C22_ClearSpeechEmptiesBuffer ==
    (op = "ClearSpeech" /\ loop_pc = "run") => (cache = <<>> /\ rest = <<>>)

(***************************************************************************)
(* SpecSpeech: one synthesized-speech stream through the send buffer, with *)
(* the record of what went in and what came out.  The orchestrator sends   *)
(* SpeechChunki16WithVowel events and EndSpeech events (app.rs:515, 563),  *)
(* the audio loop handles each with handle_event (audio.rs:489-499) and    *)
(* takes entries out with get_chunk (audio.rs:514-531).                    *)
(*                                                                         *)
(* The viseme value of an event is opaque to the buffer, so the stream     *)
(* numbers its markers: the marker of a speech chunk carries 1 + the       *)
(* number of samples sent before that chunk (0 is the Vowel that EndSpeech *)
(* queues, audio.rs:497).  pushed records an EndSpeech as END_MARK, which  *)
(* is no sample value.                                                     *)
(***************************************************************************)
MaxQueue == 6
END_MARK == 0

SamplesOf(s) == SelectSeq(s, LAMBDA x : x # END_MARK)

SpeechState ==
    [cache |-> cache, rest |-> rest, volume |-> volume, hello_wav |-> hello_wav,
     allow_speech |-> allow_speech, sig |-> <<>>]

\* the loop handles AudioEvent::SpeechChunki16WithVowel(data, vowel)
SpeechChunk ==
    \E data \in SeqsUpTo(BufSamples, MaxLen) :
        LET before == Len(SamplesOf(pushed))
            st == handle_event(SpeechState,
                               EvSpeechChunki16WithVowel(data, before + 1), ChunkSize)
        IN
            /\ before + Len(data) <= MaxPushed
            /\ Len(st.cache) <= MaxQueue
            /\ cache' = st.cache
            /\ rest' = st.rest
            /\ op' = "SpeechChunki16WithVowel"
            /\ NoResult
            /\ pushed' = pushed \o data
            /\ UNCHANGED <<volume, notified, nextNotify, yielded>>
            /\ UNCHANGED <<loopVars, app, ws, afe, call>>

\* the loop handles AudioEvent::EndSpeech(notify)
SpeechEnd ==
    /\ nextNotify <= MaxNotify
    /\ LET st == handle_event(SpeechState, EvEndSpeech(nextNotify), ChunkSize) IN
           /\ Len(st.cache) <= MaxQueue
           /\ cache' = st.cache
           /\ rest' = st.rest
    /\ nextNotify' = nextNotify + 1
    /\ op' = "EndSpeech"
    /\ NoResult
    /\ pushed' = Append(pushed, END_MARK)
    /\ UNCHANGED <<volume, notified, yielded>>
    /\ UNCHANGED <<loopVars, app, ws, afe, call>>

SpeechNext == SpeechChunk \/ SpeechEnd \/ GetChunk

SpecSpeech == BufInit /\ [][SpeechNext]_vars

\* number of samples sent before the id-th EndSpeech
RECURSIVE SentBeforeEnd(_, _)
SentBeforeEnd(s, id) ==
    IF s = <<>> THEN 0
    ELSE IF Head(s) = END_MARK
         THEN (IF id = 1 THEN 0 ELSE SentBeforeEnd(Tail(s), id - 1))
         ELSE 1 + SentBeforeEnd(Tail(s), id)

(***************************************************************************)
(* C23 (as claimed): when get_chunk signals the completion marker of an    *)
(* EndSpeech, every sample sent for playback before that EndSpeech has     *)
(* already been returned by get_chunk; none is still held in the buffer.   *)
(***************************************************************************)
CE_C23_SignalMeansFlushed ==
    (op = "get_chunk" /\ sig # <<>>)
        => \A i \in 1..Len(sig) :
              Len(Flatten(yielded)) >= SentBeforeEnd(pushed, sig[i])

(***************************************************************************)
(* C24 (as claimed): the Vowel marker of a speech chunk sits exactly at    *)
(* the boundary of that chunk's audio: when get_chunk returns the marker,  *)
(* the samples returned so far are exactly those sent before the chunk, so *)
(* that every Audio chunk after the marker holds samples of this or later  *)
(* speech chunks only.                                                     *)
(***************************************************************************)
CE_C24_VowelAtChunkBoundary ==
    (op = "get_chunk" /\ ret.t = "Vowel" /\ ret.v > 0)
        => Len(Flatten(yielded)) = ret.v - 1

(***************************************************************************)
(* C25: an iteration of afe_worker whose fetch failed or returned no data  *)
(* sends nothing, leaves the segment flag as it was and the worker goes on *)
(* to fetch again; an iteration with a non-empty speech window sends that  *)
(* window as one MicAudioChunk; an iteration with a non-empty silence      *)
(* window sends one MicAudioEnd if a segment was open and nothing          *)
(* otherwise; and a MicAudioEnd is never sent without a MicAudioChunk      *)
(* since the previous one.  (Sends are those of a worker whose event       *)
(* channel still has its receiver.)                                        *)
(***************************************************************************)
Thm_C25_SegmentEvents ==
    (afe.last # NoFetch) =>
        LET r == afe.last IN
            /\ (~r.ok \/ r.data = <<>>)
                   => (afe.sent = <<>> /\ afe.speech = afe.prev_speech /\ afe.pc = "run")
            /\ (r.ok /\ r.data # <<>> /\ r.speech /\ afe.pc = "run")
                   => (afe.sent = <<EvtMicAudioChunk(r.data)>> /\ afe.speech)
            /\ (r.ok /\ r.data # <<>> /\ ~r.speech /\ afe.pc = "run")
                   => /\ afe.sent = IF afe.prev_speech THEN <<EvtMicAudioEnd>> ELSE <<>>
                      /\ ~afe.speech
            /\ (afe.sent = <<EvtMicAudioEnd>>) => afe.prev_chunks >= 1

\* a segment of two windows with a failed or empty fetch in between is closed
Wit_C25_EndAfterChunksAndRetry ==
    /\ afe.sent = <<EvtMicAudioEnd>>
    /\ afe.prev_chunks = MaxSegment
    /\ afe.skipped
    /\ afe.prev_speech
    /\ afe.pc = "run"

(***************************************************************************)
(* C26 (as claimed): while PLAYING is true a speech window returned by the *)
(* AFE is not forwarded to the orchestrator as it arrives.                 *)
(***************************************************************************)
CE_C26_NoForwardWhilePlaying ==
    (afe.last.ok /\ afe.last.speech /\ afe.last.data # <<>> /\ afe.playing)
        => afe.sent = <<>>

(***************************************************************************)
(* C27 (as claimed): the speed value changes only in a step that handles   *)
(* EndAudio, and only when the metrics were stale at the EndVad handled    *)
(* before it.                                                              *)
(***************************************************************************)
CE_C27_RecomputeOnlyAfterStaleEndVad ==
    [][app'.speed # app.speed
          => (app'.opn = "EndAudio" /\ app.stale_at_vad = "stale")]_vars

(***************************************************************************)
(* C27 (amended): the speed value changes only in a step that handles      *)
(* EndAudio in Speaking while need_compute is set, and that step clears    *)
(* need_compute.  need_compute is set from the start and is set again only *)
(* by an EndVad handled when the metrics were stale, so the speed is       *)
(* computed anew only if the metrics were stale at the last EndVad handled *)
(* or no EndVad has been handled yet.                                      *)
(***************************************************************************)
Thm_C27_RecomputeOnlyWhenFlagged ==
    [][/\ app'.speed # app.speed
            => /\ app'.opn = "EndAudio"
               /\ app.state = "Speaking"
               /\ app.need_compute /\ ~app'.need_compute
               /\ app.stale_at_vad \in {"none", "stale"}
       /\ (app'.need_compute /\ ~app.need_compute)
            => (app'.opn = "EndVad" /\ app'.stale_at_vad = "stale")]_vars

\* an EndAudio after an EndVad with fresh metrics has left alone a speed that
\* an earlier response had computed
Wit_C27_FreshResponseKeepsSpeed ==
    /\ app.opn = "EndAudio"
    /\ app.prev = "Speaking"
    /\ app.stale_at_vad = "fresh"
    /\ app.speed # AppNew.speed

Abs(x) == IF x < 0 THEN -x ELSE x

(***************************************************************************)
(* C28: for every 16-bit sample and levels a <= b in 0..5, the magnitude   *)
(* of get_volume(s, a) is at most the magnitude of get_volume(s, b): a     *)
(* call at a level followed by a call at the same or a higher level never  *)
(* yields a smaller magnitude.                                             *)
(***************************************************************************)
Thm_C28_VolumeMonotonic ==
    [][(op = "get_volume" /\ op' = "get_volume" /\ volume <= volume')
          => Abs(ret.d[1]) <= Abs(ret'.d[1])]_vars

\* a negative sample that the division rounds toward zero
Wit_C28_TruncatedNegativeSample ==
    /\ op = "get_volume"
    /\ pushed = <<-17>>
    /\ volume = 1
    /\ ret.d = <<-1>>

SetHelloSent(a) == {a.player_out[i].d : i \in OfKind(a.player_out, "SetHello")}

(***************************************************************************)
(* C30 (as claimed): no order of events makes the handler panic, and the   *)
(* payload of the SetHello sent at HelloEnd is the concatenation of the    *)
(* HelloChunk payloads received since the most recent HelloStart.          *)
(***************************************************************************)
CE_C30_PayloadSinceHelloStart ==
    /\ app.pc # "panic"
    /\ app.opn = "HelloEnd" => SetHelloSent(app) = {app.hello_since_start}

(***************************************************************************)
(* C30 (amended): no order of events makes the handler panic; HelloEnd     *)
(* sends one SetHello whose payload is the concatenation of the HelloChunk *)
(* payloads received since the most recent HelloStart or HelloEnd (since   *)
(* the start if there was none) and leaves nothing accumulated; HelloStart *)
(* discards what was accumulated.                                          *)
(***************************************************************************)
Thm_C30_PayloadSinceStartOrEnd ==
    [][/\ app'.pc # "panic"
       /\ app'.opn = "HelloEnd"
            => (SetHelloSent(app') = {app.hello_since_mark} /\ app'.hello_wav = <<>>)
       /\ app'.opn = "HelloStart" => app'.hello_wav = <<>>
       /\ app'.hello_wav = app'.hello_since_mark]_vars

\* two chunks received since the last HelloStart, sent in the order received
Wit_C30_TwoChunksSent ==
    /\ app.opn = "HelloEnd"
    /\ SetHelloSent(app) = {<<2, 3, 1>>}
    /\ app.hello_since_start = <<2, 3, 1>>

(***************************************************************************)
(* Protocol records (protocol.rs).  ClientCommand is sent as the JSON text *)
(* serde_json::to_string gives for an enum tagged internally with "event"  *)
(* (protocol.rs:105-113, ws.rs:135); ServerEvent is read with              *)
(* rmp_serde::from_slice (ws.rs:50) from the MessagePack a peer writes     *)
(* with to_vec_named, where a unit variant is its name and a struct        *)
(* variant is a one-entry map from its name to the map of its fields.      *)
(*                                                                         *)
(* A JSON text is a sequence of characters in which the fixed fragments    *)
(* (braces, keys, variant names) count as one character each; the content  *)
(* of a string is written character by character, escaped.                 *)
(***************************************************************************)
TextChars == {"a", "\"", "\\"}
MaxText == 2
Texts == SeqsUpTo(TextChars, MaxText)
MaxIndex == 120

CmdStartRecord == [t |-> "StartRecord", n |-> 0]
CmdSubmit == [t |-> "Submit", n |-> 0]
CmdText(input) == [t |-> "Text", n |-> 0, input |-> input]
NoCmd == [t |-> "none", n |-> 0]

DigitChars == <<"0", "1", "2", "3", "4", "5", "6", "7", "8", "9">>
DigitValue(c) == CHOOSE d \in 0..9 : DigitChars[d + 1] = c
IsDigit(c) == \E d \in 0..9 : DigitChars[d + 1] = c

\* faulty variant: the content of a string is written as it is
json_escape_nothing(str) == str

\* the content of a JSON string: quote and backslash are escaped
RECURSIVE json_escape(_)
json_escape(str) ==
    IF str = <<>> THEN <<>>
    ELSE IF Head(str) \in {"\"", "\\"}
         THEN <<"\\", Head(str)>> \o json_escape(Tail(str))
         ELSE <<Head(str)>> \o json_escape(Tail(str))

RECURSIVE json_digits(_)
json_digits(n) ==
    IF n < 10 THEN <<DigitChars[n + 1]>>
    ELSE Append(json_digits(n \div 10), DigitChars[(n % 10) + 1])

\* serde_json::to_string(&cmd) (ws.rs:135)
to_string(c) ==
    <<"{", "\"event\":", "\"", c.t, "\"">>
        \o (CASE c.t = "Text" -> <<",", "\"input\":", "\"">> \o json_escape(c.input) \o <<"\"">>
              [] c.t = "Select" -> <<",", "\"index\":">> \o json_digits(c.n)
              [] OTHER -> <<>>)
        \o <<"}">>

JsonErr == [ok |-> FALSE, val |-> NoCmd]
JsonOk(c) == [ok |-> TRUE, val |-> c]

\* the content of a string up to its closing quote, and the text after it
RECURSIVE json_read_string(_, _)
json_read_string(text, acc) ==
    IF text = <<>> THEN [ok |-> FALSE, val |-> acc, rest |-> <<>>]
    ELSE IF Head(text) = "\"" THEN [ok |-> TRUE, val |-> acc, rest |-> Tail(text)]
    ELSE IF Head(text) = "\\"
         THEN IF Len(text) >= 2 /\ text[2] \in {"\"", "\\"}
              THEN json_read_string(Tail(Tail(text)), Append(acc, text[2]))
              ELSE [ok |-> FALSE, val |-> acc, rest |-> <<>>]
         ELSE json_read_string(Tail(text), Append(acc, Head(text)))

RECURSIVE json_read_number(_, _, _)
json_read_number(text, acc, any) ==
    IF text # <<>> /\ IsDigit(Head(text))
    THEN json_read_number(Tail(text), 10 * acc + DigitValue(Head(text)), TRUE)
    ELSE [ok |-> any, val |-> acc, rest |-> text]

\* serde_json::from_str::<ClientCommand>, the reader of what to_string writes
from_str(text) ==
    IF ~(Len(text) >= 6 /\ SubSeq(text, 1, 3) = <<"{", "\"event\":", "\"">> /\ text[5] = "\"")
    THEN JsonErr
    ELSE LET tag == text[4]
             body == SubSeq(text, 6, Len(text))
         IN CASE tag \in {"StartRecord", "StartChat", "Submit"} ->
                    IF body = <<"}">> THEN JsonOk([t |-> tag, n |-> 0]) ELSE JsonErr
              [] tag = "Text" ->
                    IF Len(body) >= 3 /\ SubSeq(body, 1, 3) = <<",", "\"input\":", "\"">>
                    THEN LET r == json_read_string(SubSeq(body, 4, Len(body)), <<>>) IN
                         IF r.ok /\ r.rest = <<"}">> THEN JsonOk(CmdText(r.val)) ELSE JsonErr
                    ELSE JsonErr
              [] tag = "Select" ->
                    IF Len(body) >= 2 /\ SubSeq(body, 1, 2) = <<",", "\"index\":">>
                    THEN LET r == json_read_number(SubSeq(body, 3, Len(body)), 0, FALSE) IN
                         IF r.ok /\ r.rest = <<"}">> THEN JsonOk(CmdSelect(r.val)) ELSE JsonErr
                    ELSE JsonErr
              [] OTHER -> JsonErr

ClientCommands ==
    {CmdStartRecord, CmdStartChat, CmdSubmit}
        \cup {CmdText(str) : str \in Texts}
        \cup {CmdSelect(i) : i \in 0..MaxIndex}

(***************************************************************************)
(* A MessagePack text is a sequence of tokens: a byte, the fixstr of an    *)
(* identifier (variant or field name) as one token, or one character of a  *)
(* string.  A ServerEvent value is the record of its variant and of its    *)
(* fields: text (text, action, message), data, vowel and items.            *)
(***************************************************************************)
MpByte(n) == [k |-> "byte", n |-> n, s |-> ""]
MpName(id) == [k |-> "name", n |-> 0, s |-> id]
MpChar(c) == [k |-> "char", n |-> 0, s |-> c]

ProtoEvt(t, text, data, vowel, items) ==
    [t |-> t, text |-> text, data |-> data, vowel |-> vowel, items |-> items]
NoProtoEvt == ProtoEvt("none", <<>>, <<>>, 0, <<>>)

UnitVariants ==
    {"HelloStart", "HelloEnd", "HasNotification", "EndAudio", "StartVideo", "EndVideo",
     "EndResponse", "EndVad"}

\* the fields of a struct variant in the order of their declaration
\* (protocol.rs:9-20): name, type and the place of the value in the record
FieldsOf(t) ==
    CASE t = "HelloChunk" -> <<[name |-> "data", ty |-> "Vec<u8>"]>>
      [] t = "ASR" -> <<[name |-> "text", ty |-> "String"]>>
      [] t = "Action" -> <<[name |-> "action", ty |-> "String"]>>
      [] t = "Choices" -> <<[name |-> "message", ty |-> "String"],
                            [name |-> "items", ty |-> "Vec<String>"]>>
      [] t = "StartAudio" -> <<[name |-> "text", ty |-> "String"]>>
      [] t = "AudioChunk" -> <<[name |-> "data", ty |-> "Vec<u8>"]>>
      [] t = "AudioChunkWithVowel" -> <<[name |-> "data", ty |-> "Vec<u8>"],
                                        [name |-> "vowel", ty |-> "u8"]>>
      [] t = "AudioChunki16" -> <<[name |-> "data", ty |-> "Vec<i16>"],
                                  [name |-> "vowel", ty |-> "u8"]>>
      [] t = "DisplayText" -> <<[name |-> "text", ty |-> "String"]>>
      [] OTHER -> <<>>

StructVariants ==
    {"HelloChunk", "ASR", "Action", "Choices", "StartAudio", "AudioChunk",
     "AudioChunkWithVowel", "AudioChunki16", "DisplayText"}

\* faulty variant: every integer outside the fixint range is written as int 8
mp_int_narrow(v) ==
    IF v >= 0 /\ v < 128 THEN <<MpByte(v)>>
    ELSE IF v < 0 /\ v >= -32 THEN <<MpByte(256 + v)>>
    ELSE <<MpByte(208), MpByte(v % 256)>>

\* an integer in the shortest format that holds it
mp_int(v) ==
    IF v >= 0 /\ v < 128 THEN <<MpByte(v)>>
    ELSE IF v >= 128 /\ v < 256 THEN <<MpByte(204), MpByte(v)>>
    ELSE IF v >= 256 THEN <<MpByte(205), MpByte(v \div 256), MpByte(v % 256)>>
    ELSE IF v >= -32 THEN <<MpByte(256 + v)>>
    ELSE IF v >= -128 THEN <<MpByte(208), MpByte(256 + v)>>
    ELSE <<MpByte(209), MpByte((65536 + v) \div 256), MpByte((65536 + v) % 256)>>

mp_str(str) ==
    (IF Len(str) < 32 THEN <<MpByte(160 + Len(str))>> ELSE <<MpByte(217), MpByte(Len(str))>>)
        \o [i \in 1..Len(str) |-> MpChar(str[i])]

mp_array(n) ==
    IF n < 16 THEN <<MpByte(144 + n)>>
    ELSE <<MpByte(220), MpByte(n \div 256), MpByte(n % 256)>>

RECURSIVE mp_ints(_)
mp_ints(v) == IF v = <<>> THEN <<>> ELSE mp_int(Head(v)) \o mp_ints(Tail(v))

RECURSIVE mp_strs(_)
mp_strs(v) == IF v = <<>> THEN <<>> ELSE mp_str(Head(v)) \o mp_strs(Tail(v))

mp_field(e, f) ==
    <<MpName(f.name)>>
        \o (CASE f.ty = "String" -> mp_str(e.text)
              [] f.ty = "Vec<u8>" -> mp_array(Len(e.data)) \o mp_ints(e.data)
              [] f.ty = "Vec<i16>" -> mp_array(Len(e.data)) \o mp_ints(e.data)
              [] f.ty = "u8" -> mp_int(e.vowel)
              [] f.ty = "Vec<String>" -> mp_array(Len(e.items)) \o mp_strs(e.items))

RECURSIVE mp_fields(_, _)
mp_fields(e, fs) == IF fs = <<>> THEN <<>> ELSE mp_field(e, Head(fs)) \o mp_fields(e, Tail(fs))

\* rmp_serde::to_vec_named(&event) (protocol.rs:93)
to_vec_named(e) ==
    IF e.t \in UnitVariants THEN <<MpName(e.t)>>
    ELSE <<MpByte(129), MpName(e.t), MpByte(128 + Len(FieldsOf(e.t)))>>
             \o mp_fields(e, FieldsOf(e.t))

MpFail == [ok |-> FALSE, val |-> 0, rest |-> <<>>]
IsByte(toks) == toks # <<>> /\ Head(toks).k = "byte"

\* an integer in any of the integer formats
mp_read_int(toks) ==
    IF ~IsByte(toks) THEN MpFail
    ELSE LET b == Head(toks).n
             r == Tail(toks)
         IN IF b < 128 THEN [ok |-> TRUE, val |-> b, rest |-> r]
            ELSE IF b >= 224 THEN [ok |-> TRUE, val |-> b - 256, rest |-> r]
            ELSE IF b \in {204, 208} /\ IsByte(r)
                 THEN [ok |-> TRUE,
                       val |-> IF b = 208 /\ r[1].n >= 128 THEN r[1].n - 256 ELSE r[1].n,
                       rest |-> Tail(r)]
            ELSE IF b \in {205, 209} /\ Len(r) >= 2 /\ r[1].k = "byte" /\ r[2].k = "byte"
                 THEN LET u == 256 * r[1].n + r[2].n IN
                      [ok |-> TRUE,
                       val |-> IF b = 209 /\ u >= 32768 THEN u - 65536 ELSE u,
                       rest |-> Tail(Tail(r))]
            ELSE MpFail

\* count integers of a type with the range lo..hi
RECURSIVE mp_read_ints(_, _, _, _, _)
mp_read_ints(toks, count, lo, hi, acc) ==
    IF count = 0 THEN [ok |-> TRUE, val |-> acc, rest |-> toks]
    ELSE LET r == mp_read_int(toks) IN
         IF r.ok /\ r.val >= lo /\ r.val <= hi
         THEN mp_read_ints(r.rest, count - 1, lo, hi, Append(acc, r.val))
         ELSE [ok |-> FALSE, val |-> acc, rest |-> <<>>]

RECURSIVE mp_read_chars(_, _, _)
mp_read_chars(toks, count, acc) ==
    IF count = 0 THEN [ok |-> TRUE, val |-> acc, rest |-> toks]
    ELSE IF toks # <<>> /\ Head(toks).k = "char"
         THEN mp_read_chars(Tail(toks), count - 1, Append(acc, Head(toks).s))
         ELSE [ok |-> FALSE, val |-> acc, rest |-> <<>>]

mp_read_str(toks) ==
    IF ~IsByte(toks) THEN [ok |-> FALSE, val |-> <<>>, rest |-> <<>>]
    ELSE LET b == Head(toks).n IN
         IF b >= 160 /\ b < 192 THEN mp_read_chars(Tail(toks), b - 160, <<>>)
         ELSE IF b = 217 /\ IsByte(Tail(toks))
              THEN mp_read_chars(Tail(Tail(toks)), toks[2].n, <<>>)
              ELSE [ok |-> FALSE, val |-> <<>>, rest |-> <<>>]

RECURSIVE mp_read_strs(_, _, _)
mp_read_strs(toks, count, acc) ==
    IF count = 0 THEN [ok |-> TRUE, val |-> acc, rest |-> toks]
    ELSE LET r == mp_read_str(toks) IN
         IF r.ok THEN mp_read_strs(r.rest, count - 1, Append(acc, r.val))
         ELSE [ok |-> FALSE, val |-> acc, rest |-> <<>>]

\* the length an array header announces
mp_read_array(toks) ==
    IF ~IsByte(toks) THEN MpFail
    ELSE LET b == Head(toks).n IN
         IF b >= 144 /\ b < 160 THEN [ok |-> TRUE, val |-> b - 144, rest |-> Tail(toks)]
         ELSE IF b = 220 /\ Len(toks) >= 3 /\ toks[2].k = "byte" /\ toks[3].k = "byte"
              THEN [ok |-> TRUE, val |-> 256 * toks[2].n + toks[3].n,
                    rest |-> Tail(Tail(Tail(toks)))]
              ELSE MpFail

\* one field read into the event e: [ok, val: the event, rest]
mp_read_field(e, f, toks) ==
    IF toks = <<>> \/ Head(toks) # MpName(f.name)
    THEN [ok |-> FALSE, val |-> e, rest |-> <<>>]
    ELSE LET body == Tail(toks) IN
         CASE f.ty = "String" ->
                LET r == mp_read_str(body) IN
                [ok |-> r.ok, val |-> [e EXCEPT !.text = r.val], rest |-> r.rest]
           [] f.ty \in {"Vec<u8>", "Vec<i16>"} ->
                LET h == mp_read_array(body)
                    r == IF ~h.ok THEN [ok |-> FALSE, val |-> <<>>, rest |-> <<>>]
                         ELSE IF f.ty = "Vec<u8>"
                              THEN mp_read_ints(h.rest, h.val, 0, 255, <<>>)
                              ELSE mp_read_ints(h.rest, h.val, I16_MIN, I16_MAX, <<>>)
                IN [ok |-> r.ok, val |-> [e EXCEPT !.data = r.val], rest |-> r.rest]
           [] f.ty = "u8" ->
                LET r == mp_read_int(body) IN
                [ok |-> r.ok /\ r.val >= 0 /\ r.val <= 255,
                 val |-> [e EXCEPT !.vowel = r.val], rest |-> r.rest]
           [] f.ty = "Vec<String>" ->
                LET h == mp_read_array(body)
                    r == IF ~h.ok THEN [ok |-> FALSE, val |-> <<>>, rest |-> <<>>]
                         ELSE mp_read_strs(h.rest, h.val, <<>>)
                IN [ok |-> r.ok, val |-> [e EXCEPT !.items = r.val], rest |-> r.rest]

RECURSIVE mp_read_fields(_, _, _)
mp_read_fields(e, fs, toks) ==
    IF fs = <<>> THEN [ok |-> TRUE, val |-> e, rest |-> toks]
    ELSE LET r == mp_read_field(e, Head(fs), toks) IN
         IF r.ok THEN mp_read_fields(r.val, Tail(fs), r.rest)
         ELSE [ok |-> FALSE, val |-> e, rest |-> <<>>]

RmpErr == [ok |-> FALSE, val |-> NoProtoEvt]

\* rmp_serde::from_slice::<ServerEvent> (ws.rs:50, protocol.rs:96)
from_slice_named(toks) ==
    IF Len(toks) = 1 /\ toks[1].k = "name" /\ toks[1].s \in UnitVariants
    THEN [ok |-> TRUE, val |-> ProtoEvt(toks[1].s, <<>>, <<>>, 0, <<>>)]
    ELSE IF Len(toks) >= 3 /\ toks[1] = MpByte(129) /\ toks[2].k = "name"
            /\ toks[2].s \in StructVariants
            /\ toks[3] = MpByte(128 + Len(FieldsOf(toks[2].s)))
    THEN LET t == toks[2].s
             r == mp_read_fields(ProtoEvt(t, <<>>, <<>>, 0, <<>>), FieldsOf(t),
                                 SubSeq(toks, 4, Len(toks)))
         IN IF r.ok /\ r.rest = <<>> THEN [ok |-> TRUE, val |-> r.val] ELSE RmpErr
    ELSE RmpErr

\* the values the round trip is tried on
ProtoBytes == SeqsUpTo({0, 127, 128, 255}, 2)
ProtoSamples == SeqsUpTo({I16_MIN, -129, -128, -33, -32, -1, 0, 127, 128, 255, 256, I16_MAX}, 2)
ProtoVowels == {0, 200}
ProtoItems == SeqsUpTo({<<>>, <<"a", "\"">>}, 2)

ProtoEvents ==
    {ProtoEvt(t, <<>>, <<>>, 0, <<>>) : t \in UnitVariants}
        \cup {ProtoEvt(t, str, <<>>, 0, <<>>) :
                 t \in {"ASR", "Action", "StartAudio", "DisplayText"}, str \in Texts}
        \cup {ProtoEvt("Choices", str, <<>>, 0, items) : str \in Texts, items \in ProtoItems}
        \cup {ProtoEvt(t, <<>>, d, 0, <<>>) : t \in {"HelloChunk", "AudioChunk"}, d \in ProtoBytes}
        \cup {ProtoEvt("AudioChunkWithVowel", <<>>, d, v, <<>>) : d \in ProtoBytes, v \in ProtoVowels}
        \cup {ProtoEvt("AudioChunki16", <<>>, d, v, <<>>) : d \in ProtoSamples, v \in ProtoVowels}

(***************************************************************************)
(* SpecProto: a record is encoded, and what was encoded is decoded.        *)
(***************************************************************************)
CallInit(inputs) ==
    /\ cache = <<>> /\ rest = <<>> /\ volume = VOL_NUM_INIT
    /\ notified = [id \in 1..MaxNotify |-> 0] /\ nextNotify = 1
    /\ op = "new" /\ ret = NoCall /\ sig = <<>> /\ cleared = <<>>
    /\ pushed = <<>> /\ yielded = <<>>
    /\ hello_wav = WAKE_WAV /\ allow_speech = FALSE /\ speech = FALSE
    /\ play_data = <<>> /\ evt_ch = <<>> /\ loop_pc = "none"
    /\ app = AppNew
    /\ ws = WsNew
    /\ afe = AfeNew
    /\ \E x \in inputs : call = [f |-> "input", arg |-> x, out |-> <<>>]

CallStep(c) == call' = c /\ UNCHANGED <<bufVars, loopVars, app, ws, afe>>

ProtoInputs ==
    {[kind |-> "ClientCommand", rec |-> c] : c \in ClientCommands}
        \cup {[kind |-> "ServerEvent", rec |-> e] : e \in ProtoEvents}

ProtoInit == CallInit(ProtoInputs)

ProtoEncode ==
    /\ call.f = "input"
    /\ CallStep([call EXCEPT !.f = "encode",
                             !.out = IF call.arg.kind = "ClientCommand"
                                     THEN to_string(call.arg.rec)
                                     ELSE to_vec_named(call.arg.rec)])

ProtoDecode ==
    /\ call.f = "encode"
    /\ CallStep([call EXCEPT !.f = "decode",
                             !.out = IF call.arg.kind = "ClientCommand"
                                     THEN from_str(call.out)
                                     ELSE from_slice_named(call.out)])

ProtoNext == ProtoEncode \/ ProtoDecode

SpecProto == ProtoInit /\ [][ProtoNext]_vars

WS == <<"w", "s", ":", "/", "/">>
WSS == <<"w", "s", "s", ":", "/", "/">>
HTTP == <<"h", "t", "t", "p", ":", "/", "/">>
HTTPS == <<"h", "t", "t", "p", "s", ":", "/", "/">>

IsSpace(c) == c = " "

\* faulty variant: the string is taken as it is
trim_nothing(str) == str

RECURSIVE trim_start(_)
trim_start(str) ==
    IF str # <<>> /\ IsSpace(Head(str)) THEN trim_start(Tail(str)) ELSE str

RECURSIVE trim_end(_)
trim_end(str) ==
    IF str # <<>> /\ IsSpace(str[Len(str)]) THEN trim_end(SubSeq(str, 1, Len(str) - 1)) ELSE str

\* str::trim
trim(str) == trim_end(trim_start(str))

starts_with(str, pat) == Len(str) >= Len(pat) /\ SubSeq(str, 1, Len(pat)) = pat

\* str::find: the first place where pat begins, 0 when there is none
find(str, pat) ==
    LET at == {i \in 1..(Len(str) - Len(pat) + 1) : SubSeq(str, i, i + Len(pat) - 1) = pat}
    IN IF at = {} THEN 0 ELSE CHOOSE i \in at : \A j \in at : i <= j

\* str::replacen(pat, to, 1)
replacen(str, pat, to) ==
    LET i == find(str, pat) IN
    IF i = 0 THEN str
    ELSE SubSeq(str, 1, i - 1) \o to \o SubSeq(str, i + Len(pat), Len(str))

convert_ws_to_http(input) ==
    LET url == trim(input) IN
    IF ~starts_with(url, WSS) /\ ~starts_with(url, WS) THEN url
    ELSE LET http_url == IF starts_with(url, WSS) THEN replacen(url, WSS, HTTPS)
                         ELSE replacen(url, WS, HTTP)
             scheme_end == find(http_url, <<":", "/", "/">>)
             after_scheme == SubSeq(http_url, scheme_end + 3, Len(http_url))
             path_start == find(after_scheme, <<"/">>)
         IN IF scheme_end # 0 /\ path_start # 0
            THEN SubSeq(http_url, 1, scheme_end + 2 + path_start - 1)
            ELSE http_url

\* the strings tried: leading blanks, a scheme, host[:port], a path
UrlLeads == {<<>>, <<" ">>}
UrlSchemes == {WS, WSS, HTTP, HTTPS, <<"w", "s", ":">>, <<>>}
UrlHosts == {<<"h">>, <<"h", ":", "1">>, <<"h", " ">>, <<>>}
UrlPaths == {<<>>, <<"/">>, <<"/", "w", "s">>, <<"/", "w", "/", "s">>}

UrlInputs ==
    {[lead |-> l, scheme |-> sc, host |-> h, path |-> pa, url |-> l \o sc \o h \o pa] :
        l \in UrlLeads, sc \in UrlSchemes, h \in UrlHosts, pa \in UrlPaths}

(***************************************************************************)
(* SpecUrl: the conversion is applied to a string, then to its own result. *)
(***************************************************************************)
UrlInit == CallInit(UrlInputs)

UrlConvert ==
    /\ call.f = "input"
    /\ CallStep([call EXCEPT !.f = "once", !.out = convert_ws_to_http(call.arg.url)])

UrlConvertAgain ==
    /\ call.f = "once"
    /\ CallStep([call EXCEPT !.f = "twice",
                             !.out = [once |-> call.out, twice |-> convert_ws_to_http(call.out)]])

UrlNext == UrlConvert \/ UrlConvertAgain

SpecUrl == UrlInit /\ [][UrlNext]_vars

HttpOf(scheme) == IF scheme = WS THEN HTTP ELSE HTTPS

ring_push_assert(data) == Len(data) = ChunkSize

(***************************************************************************)
(* C33: whatever the order of push_i16, push_u8, push_vowel,               *)
(* push_back_end_speech, get_chunk and clear, every Audio entry of the     *)
(* queue holds exactly ChunkSize samples and the remainder holds fewer, so *)
(* the block get_chunk hands to the loop passes the assertion of           *)
(* RingBuffer::push.                                                       *)
(***************************************************************************)
Thm_C33_QueuedChunksAreFull ==
    /\ \A i \in 1..Len(cache) : cache[i].t = "Audio" => Len(cache[i].d) = ChunkSize
    /\ Len(rest) < ChunkSize
    /\ (op = "get_chunk" /\ ret.t = "Audio") => ring_push_assert(ret.d)

\* a byte push that left a one-sample remainder behind a queued chunk
Wit_C33_BytePushCompletesRemainder ==
    /\ op = "push_u8"
    /\ Len(rest) = 1
    /\ \E i \in 1..Len(cache) : cache[i].t = "Audio"

(***************************************************************************)
(* SpecLink: the session and its transport together.  What a handler hands *)
(* to Server::send enters the channel of the connection the Server holds,  *)
(* a reconnect of the handler replaces that connection first, and the      *)
(* ws_manager of the connection writes the channel to the socket.          *)
(***************************************************************************)
\* most messages of one connection that are followed
MaxLink == 3
LinkMicLens == {5600}
\* accumulated sample counts of SubmitState that are followed
LinkTotals == {5600, 11200, 16800}
\* the events that take the session through a request and its response
LinkEvents == {SrvEvt(t, 0, 0) : t \in {"EndVad", "StartAudio", "EndAudio", "EndResponse"}}

to_connect(outcomes) == [i \in DOMAIN outcomes |-> IF outcomes[i] THEN "ok" ELSE "refused"]

RECURSIVE Server_send_all(_, _)
Server_send_all(w, items) ==
    IF items = <<>> THEN w ELSE Server_send_all(Server_send(w, Head(items)), Tail(items))

\* what the handler that ended in b did to the Server: its reconnect, if it
\* made one, then its sends
link(w, b, outcomes) ==
    Server_send_all(IF b.conn = "none" THEN w
                    ELSE Server_reconnect_with_retry(w, to_connect(outcomes),
                                                     RECONNECT_RETRIES),
                    b.ws_out)

LinkStep(b, outcomes) ==
    /\ Len(ws.wire) + Len(ws.outq) + Len(b.ws_out) <= MaxLink
    /\ b.conn = "ok" => ws.conns < MaxConns
    /\ app' = observe(app, b)
    /\ ws' = link(ws, b, outcomes)
    /\ UNCHANGED <<bufVars, loopVars, afe, call>>

LinkKeyK0 ==
    /\ app.pc = "run"
    /\ \E outcomes \in ReconnectOutcomes : LinkStep(handle_key0(app, outcomes), outcomes)

LinkKeyK0Long ==
    /\ app.pc = "run"
    /\ app.voice_interrupt
    /\ LinkStep(trigger_interrupt(Begin(app, "k0_", 0)), <<>>)

LinkMicAudioChunk ==
    /\ app.pc = "run"
    /\ \E n \in LinkMicLens, outcomes \in ReconnectOutcomes :
          /\ app.submit_audio + n \in LinkTotals
          /\ LinkStep(handle_mic_audio(app, outcomes, n), outcomes)

LinkServerEvent ==
    /\ app.pc = "run"
    /\ ~is_block_server(app)
    /\ \E evt \in LinkEvents : LinkStep(handle_server_event(app, evt), <<>>)

\* rx.recv() of the ws_manager yields an item (ws.rs:131-157); a write that
\* fails ends the task
LinkWsSend ==
    /\ ws.mgr = "run"
    /\ ws.outq # <<>>
    /\ \E written \in BOOLEAN :
          /\ ws' = ws_send(ws, written)
          /\ app' = [app EXCEPT !.ws_alive = written]
    /\ UNCHANGED <<bufVars, loopVars, afe, call>>

LinkInit ==
    /\ cache = <<>> /\ rest = <<>> /\ volume = VOL_NUM_INIT
    /\ notified = [id \in 1..MaxNotify |-> 0] /\ nextNotify = 1
    /\ op = "new" /\ ret = NoCall /\ sig = <<>> /\ cleared = <<>>
    /\ pushed = <<>> /\ yielded = <<>>
    /\ hello_wav = WAKE_WAV /\ allow_speech = FALSE /\ speech = FALSE
    /\ play_data = <<>> /\ evt_ch = <<>> /\ loop_pc = "none"
    /\ app = [AppNew EXCEPT !.voice_interrupt = TRUE]
    /\ ws = WsNew
    /\ afe = AfeNew
    /\ call = NoCallYet

LinkNext ==
    \/ LinkKeyK0
    \/ LinkKeyK0Long
    \/ LinkMicAudioChunk
    \/ LinkServerEvent
    \/ LinkWsSend

SpecLink == LinkInit /\ [][LinkNext]_vars

\* the messages a connection was given: those written and those waiting
LinkSent(w) == w.wire \o w.outq
ChatBefore(msgs, i) == \E j \in 1..(i - 1) : msgs[j] = CmdStartChat

(***************************************************************************)
(* C34: a handler that hands an audio frame to the transport ends in       *)
(* Submitting, and a StartChat was handed to the same connection before    *)
(* the frame; each message enters the channel behind those already handed  *)
(* over, the ws_manager writes the oldest one first, and so every audio    *)
(* frame on the wire stands behind a StartChat of its connection.          *)
(***************************************************************************)
Thm_C34_FramesFollowStartChatInOrder ==
    [][/\ IF ws'.opn = "send" /\ ws'.outq # ws.outq
          THEN /\ ws'.outq = Tail(ws.outq)
               /\ ws'.wire = IF ws'.mgr = "run" THEN Append(ws.wire, Head(ws.outq))
                             ELSE ws.wire
          ELSE /\ \A i \in 1..Len(app'.ws_out) :
                     app'.ws_out[i].t = "AudioChunk" =>
                         /\ app'.state = "Submitting"
                         /\ \/ ChatBefore(app'.ws_out, i)
                            \/ /\ ws'.tx = ws.tx
                               /\ ChatBefore(LinkSent(ws), Len(LinkSent(ws)) + 1)
               /\ ws'.wire = IF ws'.tx = ws.tx THEN ws.wire ELSE <<>>
               /\ ws'.outq = (IF ws'.tx = ws.tx THEN ws.outq ELSE <<>>) \o app'.ws_out
       /\ \A i \in 1..Len(ws'.wire) :
             ws'.wire[i].t = "AudioChunk" => ChatBefore(ws'.wire, i)]_vars

\* a connection made by a reconnect has written StartChat and then an audio
\* frame
Wit_C34_FrameOnSecondConnection ==
    /\ ws.tx = 2
    /\ Len(ws.wire) >= 2
    /\ ws.wire[1] = CmdStartChat
    /\ ws.wire[2].t = "AudioChunk"
    /\ app.state = "Submitting"

(***************************************************************************)
(* SpecOrder: the session fed audio chunks that are numbered in the order  *)
(* in which they are handled in Speaking (the number is carried as the     *)
(* vowel tag), to follow each chunk from the transport to the audio loop.  *)
(***************************************************************************)
\* most chunks handled in one behaviour
MaxOrder == 3
OrderMicLens == {5600}

OrderMicAudioChunk == MicAudioChunkOf(OrderMicLens)

OrderServerEvent ==
    /\ app.chunks_handled < MaxOrder
    /\ ServerEventOf({SrvEvt(t, 0, 0) : t \in {"EndVad", "StartAudio", "EndResponse", "EndAudio"}}
                       \cup {SrvEvt("AudioChunki16", n, app.chunks_handled + 1) : n \in AudioLens})

OrderInit ==
    /\ cache = <<>> /\ rest = <<>> /\ volume = VOL_NUM_INIT
    /\ notified = [id \in 1..MaxNotify |-> 0] /\ nextNotify = 1
    /\ op = "new" /\ ret = NoCall /\ sig = <<>> /\ cleared = <<>>
    /\ pushed = <<>> /\ yielded = <<>>
    /\ hello_wav = WAKE_WAV /\ allow_speech = FALSE /\ speech = FALSE
    /\ play_data = <<>> /\ evt_ch = <<>> /\ loop_pc = "none"
    /\ app = [AppNew EXCEPT !.voice_interrupt = TRUE, !.chunks_handled = 0]
    /\ ws = WsNew
    /\ afe = AfeNew
    /\ call = NoCallYet

OrderNext ==
    \/ KeyK0
    \/ KeyK0Long
    \/ OrderMicAudioChunk
    \/ OrderServerEvent
    \/ Tick

SpecOrder == OrderInit /\ [][OrderNext]_vars

Increasing(q) == \A i, j \in 1..Len(q) : i < j => q[i] < q[j]
HeldTags(a) == [i \in 1..Len(a.recv_audio_buffer) |-> a.recv_audio_buffer[i].v]

(***************************************************************************)
(* C35 as stated: the speech chunks sent to the audio loop are, in order   *)
(* and without duplicates, the AudioChunki16 events handled in Speaking    *)
(* (those still held in recv_audio_buffer follow), and recv_audio_buffer   *)
(* is empty whenever the speed estimate is below the limit.                *)
(***************************************************************************)
CE_C35_EveryHandledChunkSent ==
    /\ app.chunks_sent \o HeldTags(app) = [i \in 1..app.chunks_handled |-> i]
    /\ below_limit(app.speed) => app.recv_audio_buffer = <<>>

(***************************************************************************)
(* C35, amended: the speech chunks sent to the audio loop are, in order    *)
(* and without duplicates, some of the AudioChunki16 events handled in     *)
(* Speaking: a chunk held in recv_audio_buffer is sent by the EndAudio     *)
(* handled in Speaking, behind those sent before it, or dropped when the   *)
(* session goes to Listening first.  recv_audio_buffer is empty whenever   *)
(* the speed estimate is below the limit.                                  *)
(***************************************************************************)
Thm_C35_SentInHandlingOrder ==
    /\ Increasing(app.chunks_sent \o HeldTags(app))
    /\ \A i \in 1..Len(app.chunks_sent) : app.chunks_sent[i] \in 1..app.chunks_handled
    /\ \A i \in 1..Len(app.recv_audio_buffer) :
          app.recv_audio_buffer[i].v \in 1..app.chunks_handled
    /\ app.state = "Listening" => app.recv_audio_buffer = <<>>
    /\ below_limit(app.speed) => app.recv_audio_buffer = <<>>

\* an EndAudio has sent a held chunk behind the chunks sent before it
Wit_C35_ForwardedThenFlushed ==
    /\ app.opn = "EndAudio"
    /\ Len(app.chunks_sent) >= 2
    /\ app.player_out # <<>>
    /\ app.player_out[1].t = "SpeechChunki16WithVowel"
    /\ app.player_out[1].v = app.chunks_sent[Len(app.chunks_sent)]

(***************************************************************************)
(* C36: once a barge-in has taken the session from Speaking to Submitting, *)
(* no speech chunk handled before it is sent to the audio loop: every      *)
(* chunk sent afterwards was handled after the barge-in.                   *)
(***************************************************************************)
CE_C36_NoStaleChunkAfterBargeIn ==
    app.chunks_cut >= 0 =>
        \A i \in 1..Len(app.player_out) :
            app.player_out[i].t = "SpeechChunki16WithVowel"
                => app.player_out[i].v > app.chunks_cut

(***************************************************************************)
(* SpecRetire: the transport across reconnects, with the ws_manager tasks  *)
(* of the connections given up.  A successful reconnect drops the Sender   *)
(* and the Receiver the Server held (ws.rs:250-252): the task given up     *)
(* still finds the items left in its channel, then None (ws.rs:158-161),   *)
(* and its tx.send fails (ws.rs:66, 86, 103, 113).  The messages of a      *)
(* connection carry its number in n.  tokio::select! polls its ready       *)
(* branches in random order, so the rx.recv() branch of a task given up,   *)
(* which is ready from then on, is taken in the end: weak fairness of the  *)
(* steps of that branch.                                                   *)
(***************************************************************************)
\* messages of connection k: an event and a frame that is no ServerEvent
RetireFrames(k) == {Frame(TRUE, "ASR", FALSE, k, 0), Frame(TRUE, "?", FALSE, k, 0)}

\* inq: the events that were queued for the Server when it dropped the Receiver
Retired(w) == [tx |-> w.tx, mgr |-> w.mgr, outq |-> w.outq, inq |-> w.inq]

\* the Server after a call of reconnect_with_retry that took w0 to w
retire(w0, w) == IF w.tx = w0.tx THEN w ELSE [w EXCEPT !.old = Append(@, Retired(w0))]

\* what the connect() calls of one reconnect_with_retry do
RetireOutcomes == {<<"ok", "ok", "ok">>, <<"refused", "ok", "ok">>,
                   <<"refused", "refused", "refused">>}

\* connections made in one behaviour
RetireConns == 2

RetireReconnect ==
    /\ ws.conns < RetireConns
    /\ \E outcomes \in RetireOutcomes :
          /\ ws' = retire(ws, Server_reconnect_with_retry(ws, outcomes, RECONNECT_RETRIES))
          /\ UNCHANGED <<bufVars, loopVars, app, afe, call>>

RetireRecv ==
    /\ ws.mgr = "run"
    /\ Len(ws.frames) < MaxOut
    /\ \E f \in RetireFrames(ws.tx) : WsStep(ws_recv(ws, f))

\* the task given up takes an item left in its channel (ws.rs:131-157)
OldSend(i) ==
    /\ ws.old[i].mgr = "run"
    /\ ws.old[i].outq # <<>>
    /\ \E written \in BOOLEAN :
          WsStep([ws EXCEPT !.old[i].outq = Tail(@),
                            !.old[i].mgr = IF ~written THEN "err"
                                           ELSE IF Head(ws.old[i].outq).t = "Close" THEN "ok"
                                           ELSE "run"])

\* SelectItem::Send(None) (ws.rs:158-161)
OldSendClosed(i) ==
    /\ ws.old[i].mgr = "run"
    /\ ws.old[i].outq = <<>>
    /\ WsStep([ws EXCEPT !.old[i].mgr = "ok"])

\* the task given up reads a message: an event it cannot hand over ends it
OldRecv(i) ==
    /\ ws.old[i].mgr = "run"
    /\ \E f \in RetireFrames(ws.old[i].tx) :
          /\ ws_recv(WsNew, f).inq # <<>>
          /\ WsStep([ws EXCEPT !.old[i].mgr = "err"])

OldTx == \E i \in 1..Len(ws.old) : OldSend(i) \/ OldSendClosed(i)
OldRx == \E i \in 1..Len(ws.old) : OldRecv(i)

RetireNext ==
    \/ RetireReconnect
    \/ RetireRecv
    \/ ServerSend
    \/ ServerRecv
    \/ OldTx
    \/ OldRx

SpecRetire == WsInit /\ [][RetireNext]_vars /\ WF_vars(OldTx)

(***************************************************************************)
(* C37: after a successful reconnect every event Server::recv returns      *)
(* comes from the new connection; the events of the old connection that    *)
(* were queued, or that its task reads later, are never returned; and the  *)
(* ws_manager task of the old connection returns in the end.               *)
(***************************************************************************)
Thm_C37_OnlyNewConnectionDelivers ==
    /\ [](/\ \A i \in 1..Len(ws.got) : ws.got[i].n = ws.tx
          /\ \A i \in 1..Len(ws.inq) : ws.inq[i].n = ws.tx)
    /\ \A i \in 1..(RetireConns - 1) :
          (Len(ws.old) >= i) ~> (Len(ws.old) >= i /\ ws.old[i].mgr # "run")

\* the new connection has delivered an event while the task of the old one,
\* which had an event queued, has returned
Wit_C37_NewEventAfterOldQueued ==
    /\ ws.tx = 2
    /\ ws.got # <<>>
    /\ Len(ws.old) = 1
    /\ ws.old[1].inq # <<>>
    /\ ws.old[1].mgr = "ok"

(***************************************************************************)
(* SpecVolKeys: the volume keys of the session and the audio loop that     *)
(* applies them.  app.player_ch holds the VolSet events of the player      *)
(* channel (an unbounded channel, main.rs) the loop has not taken yet.     *)
(***************************************************************************)
\* most VolSet events waiting in the player channel
MaxVolCh == 2

VolSets(out) == SelectSeq(out, LAMBDA e : e.t = "VolSet")

VolKeyStep(b) ==
    /\ Len(app.player_ch) + Len(VolSets(b.player_out)) <= MaxVolCh
    /\ app' = [observe(app, b) EXCEPT !.player_ch = @ \o VolSets(b.player_out)]
    /\ UNCHANGED <<bufVars, loopVars, ws, afe, call>>

VolKeyUp ==
    /\ app.pc = "run"
    /\ \E wraps \in BOOLEAN : VolKeyStep(handle_key_up(app, wraps))

VolKeyDown ==
    /\ app.pc = "run"
    /\ \E wraps \in BOOLEAN : VolKeyStep(handle_key_down(app, wraps))

\* an iteration of the audio loop: rx.try_recv() yields the oldest event of
\* the player channel, if there is one (audio.rs:467-468)
VolAudioLoop ==
    /\ audio_loop_iter(IF app.player_ch = <<>> THEN NoEvent ELSE Head(app.player_ch), TRUE)
    /\ app' = [app EXCEPT !.player_ch = IF @ = <<>> THEN @ ELSE Tail(@)]
    /\ UNCHANGED <<pushed, yielded, nextNotify, ws, afe, call>>

\* App built by main_work (app.rs:640-661), the audio loop before its first
\* iteration (audio.rs:454-465)
VolKeysInit ==
    /\ cache = <<>> /\ rest = <<>> /\ volume = VOL_NUM_INIT
    /\ notified = [id \in 1..MaxNotify |-> 0] /\ nextNotify = 1
    /\ op = "new" /\ ret = NoCall /\ sig = <<>> /\ cleared = <<>>
    /\ pushed = <<>> /\ yielded = <<>>
    /\ hello_wav = WAKE_WAV /\ allow_speech = FALSE /\ speech = FALSE
    /\ play_data = <<>> /\ evt_ch = <<>> /\ loop_pc = "run"
    /\ app = AppNew
    /\ ws = WsNew
    /\ afe = AfeNew
    /\ call = NoCallYet

VolKeysNext ==
    \/ KeyK0
    \/ KeysServerEvent
    \/ VolKeyUp
    \/ VolKeyDown
    \/ VolAudioLoop

SpecVolKeys == VolKeysInit /\ [][VolKeysNext]_vars

(***************************************************************************)
(* C38: whenever the audio loop has taken every VolSet event sent so far,  *)
(* the initial state included, the level it applies (send_buffer.volume)   *)
(* is the level of the session (App.vol).                                  *)
(***************************************************************************)
CE_C38_AppliedLevelIsSessionLevel ==
    app.player_ch = <<>> => volume = app.vol

(***************************************************************************)
(* C39: a server event handled while the session is Idle leaves it Idle.   *)
(***************************************************************************)
CE_C39_ServerEventsKeepIdle ==
    (app.opn \in ServerEventTags /\ app.prev = "Idle") => app.state = "Idle"

(***************************************************************************)
(* SpecChan: the session and the ws_manager of its connection over the two *)
(* bounded channels of connect_handler.  A tx.send(..).await on a full     *)
(* channel waits until the receiver takes an item: the ws_manager waits    *)
(* inside its Recv arm (ws.hold) and reads neither the socket nor its      *)
(* channel meanwhile; the session waits inside Server::send (ws.wait) and  *)
(* selects no event meanwhile, until the timeout of Server::send is over.  *)
(***************************************************************************)
\* ws.rs:173-174 -- capacity of both channels
CHANNEL_CAP == 32
\* blocks of the microphone task: each one is long enough to be submitted
ChanMicLens == {SUBMIT_MIN_LEN}
\* messages of the socket: an event that leaves the session where it is
ChanFrames == {Frame(TRUE, "DisplayText", FALSE, 0, 0)}

\* the messages written, read and returned so far are not followed
forget(w) == [w EXCEPT !.wire = <<>>, !.frames = <<>>, !.got = <<>>]

RECURSIVE send_while_space(_, _, _)
\* the sends of a handler, in order, from item k + 1 on: each enters the
\* channel while it has space (ws.rs:279-285); the result tells how many
\* items are in
send_while_space(w, items, k) ==
    IF k >= Len(items) \/ Len(w.outq) >= CHANNEL_CAP THEN [w |-> w, k |-> k]
    ELSE send_while_space(Server_send(w, items[k + 1]), items, k + 1)

\* the handler of a microphone block (app.rs:362-430) up to the send that
\* finds the channel full, or to its end
ChanMicRun(n, outcomes, k) ==
    LET b == handle_mic_audio(app, outcomes, n)
        r == send_while_space(ws, b.ws_out, k)
    IN IF r.k = Len(b.ws_out)
       THEN /\ app' = observe(app, b)
            /\ ws' = forget([r.w EXCEPT !.wait = <<>>])
       ELSE /\ app' = app
            /\ ws' = forget([r.w EXCEPT !.opn = "Server::send",
                                        !.wait = <<[n |-> n, outcomes |-> outcomes,
                                                    k |-> r.k]>>])

\* Event::MicAudioChunk selected (app.rs:84-86, 362-430)
ChanMicAudioChunk ==
    /\ app.pc = "run" /\ ws.wait = <<>>
    /\ \E n \in ChanMicLens, outcomes \in ReconnectOutcomes :
          /\ handle_mic_audio(app, outcomes, n).conn = "none"
          /\ ChanMicRun(n, outcomes, 0)
    /\ UNCHANGED <<bufVars, loopVars, afe, call>>

\* the ws_manager took an item: the waiting send goes on
ChanSendResume ==
    /\ app.pc = "run" /\ ws.wait # <<>>
    /\ Len(ws.outq) < CHANNEL_CAP
    /\ ChanMicRun(ws.wait[1].n, ws.wait[1].outcomes, ws.wait[1].k)
    /\ UNCHANGED <<bufVars, loopVars, afe, call>>

\* the timeout of Server::send is over with the channel still full
\* (ws.rs:280-281); the `?` of the handler ends main_work.  A ws_manager
\* that can run takes an item long before the timeout, so the time passes
\* only while the ws_manager waits as well
ChanSendTimeout ==
    /\ app.pc = "run" /\ ws.wait # <<>>
    /\ Len(ws.outq) >= CHANNEL_CAP
    /\ ws.mgr = "run" /\ ws.hold # <<>> /\ Len(ws.inq) >= CHANNEL_CAP
    /\ app' = failed(Begin(app, "mic", ws.wait[1].n))
    /\ ws' = [WsBegin(ws, "Server::send") EXCEPT
                 !.wait = <<>>, !.res = ResErr(<<"Timeout sending message">>)]
    /\ UNCHANGED <<bufVars, loopVars, afe, call>>

\* Event::Event(K0) selected (app.rs:310-360); the button is pressed to
\* engage only
ChanKeyK0 ==
    /\ app.pc = "run" /\ ws.wait = <<>>
    /\ app.state = "Idle"
    /\ \E outcomes \in ReconnectOutcomes :
          LET b == handle_key0(app, outcomes) IN
          /\ b.conn = "ok" => ws.conns < MaxConns
          /\ Len(b.ws_out) <= CHANNEL_CAP
          /\ app' = observe(app, b)
          /\ ws' = forget([link(ws, b, outcomes) EXCEPT
                              !.hold = IF b.conn = "ok" THEN <<>> ELSE @])
    /\ UNCHANGED <<bufVars, loopVars, afe, call>>

\* server.recv() selected (app.rs:72-78, 90-92)
ChanServerEvent ==
    /\ app.pc = "run" /\ ws.wait = <<>>
    /\ ~is_block_server(app)
    /\ ws.inq # <<>>
    /\ app' = observe(app, handle_server_event(app, Head(ws.inq)))
    /\ ws' = forget(Server_recv(ws))
    /\ UNCHANGED <<bufVars, loopVars, afe, call>>

\* ws.next() of the ws_manager yields a message (ws.rs:36-122); with inq full
\* the task waits in tx.send(evt).await
ChanWsRecv ==
    /\ ws.mgr = "run" /\ ws.hold = <<>>
    /\ \E f \in ChanFrames :
          LET r == ws_recv(ws, f) IN
          ws' = forget(IF Len(r.inq) > CHANNEL_CAP
                       THEN [r EXCEPT !.inq = ws.inq, !.hold = <<r.inq[Len(r.inq)]>>]
                       ELSE r)
    /\ UNCHANGED <<bufVars, loopVars, app, afe, call>>

\* the session took an event: the waiting tx.send(evt).await completes
ChanWsDeliver ==
    /\ ws.mgr = "run" /\ ws.hold # <<>>
    /\ Len(ws.inq) < CHANNEL_CAP
    /\ ws' = [deliver(ws, ws.hold[1]) EXCEPT !.hold = <<>>]
    /\ UNCHANGED <<bufVars, loopVars, app, afe, call>>

\* rx.recv() of the ws_manager yields an item (ws.rs:131-157)
ChanWsSend ==
    /\ ws.mgr = "run" /\ ws.hold = <<>>
    /\ ws.outq # <<>>
    /\ ws' = forget(ws_send(ws, TRUE))
    /\ UNCHANGED <<bufVars, loopVars, app, afe, call>>

ChanNext ==
    \/ ChanKeyK0
    \/ ChanMicAudioChunk
    \/ ChanSendResume
    \/ ChanSendTimeout
    \/ ChanServerEvent
    \/ ChanWsRecv
    \/ ChanWsDeliver
    \/ ChanWsSend

ChanInit ==
    /\ cache = <<>> /\ rest = <<>> /\ volume = VOL_NUM_INIT
    /\ notified = [id \in 1..MaxNotify |-> 0] /\ nextNotify = 1
    /\ op = "new" /\ ret = NoCall /\ sig = <<>> /\ cleared = <<>>
    /\ pushed = <<>> /\ yielded = <<>>
    /\ hello_wav = WAKE_WAV /\ allow_speech = FALSE /\ speech = FALSE
    /\ play_data = <<>> /\ evt_ch = <<>> /\ loop_pc = "none"
    /\ app = AppNew
    /\ ws = WsNew
    /\ afe = AfeNew
    /\ call = NoCallYet

SpecChan == ChanInit /\ [][ChanNext]_vars

(***************************************************************************)
(* C40: the session never waits in Server::send on the full outbound       *)
(* channel while the ws_manager waits on the full inbound channel, and     *)
(* Server::send never times out while the ws_manager runs.                 *)
(***************************************************************************)
CE_C40_NoMutualBlocking ==
    /\ ~(/\ ws.mgr = "run"
         /\ ws.wait # <<>> /\ Len(ws.outq) = CHANNEL_CAP
         /\ ws.hold # <<>> /\ Len(ws.inq) = CHANNEL_CAP)
    /\ ~(/\ ws.mgr = "run"
         /\ ws.opn = "Server::send" /\ ws.res = ResErr(<<"Timeout sending message">>))

====
